---- MODULE Spec2Model ----
(***************************************************************************)
(* A model of clangalyzer: trace-file parsing (TimingData, TimingDataItem), *)
(* the merge engine (TimingData.join), serialization (TimingData.write),    *)
(* the Summary Store (Comparison) and the Snapshot Locator                  *)
(* (Context._find_last_comparison).                                         *)
(*                                                                         *)
(* Python values are modelled as follows.                                   *)
(*   - Optional[int]: <<>> is None, <<v>> is the value v.                   *)
(*   - a JSON scalar read with int(): a record [t, n]; t = "int" is a JSON  *)
(*     number n, t = "numstr" the decimal string of n, t = "badstr" a       *)
(*     string int() rejects.                                                *)
(*   - a string that the program builds by concatenation (an event name):  *)
(*     the sequence of its fragments, so <<>> is the empty string and \o is *)
(*     concatenation.                                                      *)
(*   - an event object: [name, num]; name = <<>> stands for a missing name  *)
(*     key (get_name returns "" for it), num maps the keys among ts, dur,   *)
(*     pid, tid that are present to their JSON scalars.                     *)
(*   - a run ends by sys.exit(1) (status "fatal") or by an exception no     *)
(*     handler catches (status "exception").                                *)
(***************************************************************************)
EXTENDS Integers, Sequences, FiniteSets, TLC

\* ------------------------------------------------------------------ bounds

\* Events held by all parsed sources together (capacity of the item heap).
MaxItems == 2

\* Calls of TimingData.join on the accumulator.
MaxJoins == 3

\* Events in the candidate input file handed to parse.
MaxParseEvents == 2

\* The number of components of a classified path is at most MaxPathLen.
MaxPathLen == 5

\* The most calls of TimingData.write on the accumulator.
MaxWrites == 2

\* The number of runs of the program on one output root.
MaxRuns == 2

\* ------------------------------------------------------------- JSON values

JInt(n) == [t |-> "int", n |-> n]

JNumStr(n) == [t |-> "numstr", n |-> n]

JBadStr == [t |-> "badstr", n |-> 0]

NumKeys == {"ts", "dur", "pid", "tid"}

TotalExecuteCompiler == <<"Total ExecuteCompiler">>

ExecuteCompiler == <<"ExecuteCompiler">>

\* An event object with every numeric key present as a JSON number.
Ev(name, ts, dur, pid, tid) ==
  [name |-> name,
   num |-> [k \in NumKeys |->
              CASE k = "ts" -> JInt(ts)
                [] k = "dur" -> JInt(dur)
                [] k = "pid" -> JInt(pid)
                [] OTHER -> JInt(tid)]]

\* The function d without key k.
DictRemove(d, k) == [x \in (DOMAIN d) \ {k} |-> d[x]]

\* The function d with key k set to v.
DictPut(d, k, v) == [x \in (DOMAIN d) \cup {k} |-> IF x = k THEN v ELSE d[x]]

\* ----------------------------------------------------------- TimingDataItem

KeyTrace == "traceEvents"

KeyBegin == "beginningOfTime"

\* TimingDataItem.get_name of an item.
get_name(it) == it.dict.name

is_total_execute_compiler(it) == get_name(it) = TotalExecuteCompiler

\* Mutant of is_execute_compiler: every name ending in "ExecuteCompiler".
is_execute_compiler_suffix(it) == get_name(it) \in {ExecuteCompiler, TotalExecuteCompiler}

\* TimingDataItem.is_execute_compiler.
is_execute_compiler(it) == get_name(it) = ExecuteCompiler

get_duration(it) == it.duration

\* Mutant of get_total_time: the duration alone.
get_total_time_dur_only(it) == it.duration

\* TimingDataItem.get_total_time: the end of the span, time + duration.
get_total_time(it) == it.time + it.duration

\* Mutant of _read_int_from_dict: a missing key reads as 0 instead of exiting.
read_int_default_zero(d, key) ==
  IF key \notin DOMAIN d.num THEN [ok |-> TRUE, v |-> 0]
  ELSE IF d.num[key].t = "badstr" THEN [ok |-> FALSE, v |-> 0]
  ELSE [ok |-> TRUE, v |-> d.num[key].n]

\* TimingDataItem._read_int_from_dict: ok = FALSE is log_error_and_exit.
read_int_from_dict(d, key) ==
  IF key \notin DOMAIN d.num THEN [ok |-> FALSE, v |-> 0]
  ELSE IF d.num[key].t = "badstr" THEN [ok |-> FALSE, v |-> 0]
  ELSE [ok |-> TRUE, v |-> d.num[key].n]

\* TimingDataItem.__init__ followed by TimingDataItem.parse on event object d.
\* ok = FALSE: one of the reads exited the run.
TimingDataItem_parse(filename, d) ==
  LET ts == read_int_from_dict(d, "ts")
      pid == read_int_from_dict(d, "pid")
      tid == read_int_from_dict(d, "tid")
      hasDur == "dur" \in DOMAIN d.num
      dur == IF hasDur THEN read_int_from_dict(d, "dur") ELSE [ok |-> TRUE, v |-> 0]
  IN [ok |-> ts.ok /\ pid.ok /\ tid.ok /\ dur.ok,
      item |-> [filename |-> filename, dict |-> d, time |-> ts.v,
                pid |-> pid.v, tid |-> tid.v, duration |-> dur.v]]

\* TimingDataItem.json_dict: the event object written for an item.
json_dict(it) ==
  LET name == IF is_execute_compiler(it)
              THEN get_name(it) \o <<" - ", it.filename>>
              ELSE get_name(it)
      n1 == DictPut(it.dict.num, "ts", JInt(it.time))
      n2 == DictPut(n1, "pid", JInt(it.pid))
      n3 == DictPut(n2, "tid", JInt(it.tid))
  IN [name |-> name, num |-> n3]

\* Mutant of json_dict_self: d is the item's own dict, so the rewritten name
\* and the three numbers are stored in the item.
json_dict_self_aliased(it) ==
  [it EXCEPT !.dict = json_dict(it)]

\* TimingDataItem.json_dict, lines 113-126: the item after the call. d is a
\* new dict filled from self._dict, and every assignment is to d.
json_dict_self(it) == it

\* --------------------------------------------------------------- TimingData

\* A file's content as json.loads sees it. kind "undecodable": bytes that are
\* not UTF-8; "badjson": text json.loads rejects; otherwise the kind of the
\* top-level JSON value. keys: the keys of an object, the string elements of
\* an array, the key names occurring inside a string. events: the value of
\* traceEvents.
Doc(kind, keys, events) == [kind |-> kind, keys |-> keys, events |-> events]

\* Python's "key in data" for a decoded JSON value: membership for an object
\* and an array, substring for a string; TypeError (ok = FALSE) for a number,
\* a boolean and null.
PyIn(key, doc) ==
  IF doc.kind \in {"object", "array", "string"}
  THEN [ok |-> TRUE, v |-> key \in doc.keys]
  ELSE [ok |-> FALSE, v |-> FALSE]

\* The loop of TimingData.parse over the events (lines 113-116): items parsed
\* so far, until one exits the run.
RECURSIVE ParseItems(_, _, _)
ParseItems(filename, events, done) ==
  IF events = <<>> THEN [ok |-> TRUE, items |-> done]
  ELSE LET r == TimingDataItem_parse(filename, Head(events))
       IN IF r.ok THEN ParseItems(filename, Tail(events), Append(done, r.item))
          ELSE [ok |-> FALSE, items |-> done]

\* TimingData.parse on a file named filename holding doc. result "true" and
\* "false" are the return value; "fatal" is log_error_and_exit inside an
\* event's parse; "exception" is an exception that parse does not catch
\* (TypeError of "in" on a number, AttributeError of .keys() on a list or str).
TimingData_parse(filename, doc) ==
  IF doc.kind \in {"undecodable", "badjson"} THEN [result |-> "false", items |-> <<>>]
  ELSE IF ~PyIn(KeyBegin, doc).ok THEN [result |-> "exception", items |-> <<>>]
  ELSE IF ~PyIn(KeyBegin, doc).v \/ ~PyIn(KeyTrace, doc).v
       THEN [result |-> "false", items |-> <<>>]
  ELSE IF doc.kind # "object" THEN [result |-> "exception", items |-> <<>>]
  ELSE IF Cardinality(doc.keys) # 2 THEN [result |-> "false", items |-> <<>>]
  ELSE LET r == ParseItems(filename, doc.events, <<>>)
       IN [result |-> IF r.ok THEN "true" ELSE "fatal", items |-> r.items]

\* Mutant of JoinItem: the thread id is not unified.
JoinItem_keep_tid(it, off, pid, tid) ==
  [it EXCEPT !.time = it.time + off,
             !.pid = IF pid = <<>> THEN it.pid ELSE pid[1]]

\* Lines 139-151 of TimingData.join: the item shifted by the accumulator's
\* offset and forced to the pid and tid in force (<<>> is None: keep its own).
JoinItem(it, off, pid, tid) ==
  [it EXCEPT !.time = it.time + off,
             !.pid = IF pid = <<>> THEN it.pid ELSE pid[1],
             !.tid = IF tid = <<>> THEN it.tid ELSE tid[1]]

\* The loop of TimingData.join (lines 136-153) from the k-th item of the
\* source on. h is the heap of item objects, ids the source's item
\* references, out the accumulator's item references.
RECURSIVE JoinLoop(_, _, _, _, _, _, _, _)
JoinLoop(h, ids, k, off, pid, tid, last, out) ==
  IF k > Len(ids) THEN [heap |-> h, last |-> last, items |-> out]
  ELSE LET id == ids[k]
           it == h[id]
           last2 == IF is_total_execute_compiler(it) THEN get_total_time(it) ELSE last
           it2 == JoinItem(it, off, pid, tid)
       IN JoinLoop([h EXCEPT ![id] = it2], ids, k + 1, off,
                   IF pid = <<>> THEN <<it.pid>> ELSE pid,
                   IF tid = <<>> THEN <<it.tid>> ELSE tid,
                   last2, Append(out, id))

\* TimingData.join(self, other): the heap, self._items and self._time_offset
\* after the call.
TimingData_join(h, self, other) ==
  LET pid == IF Len(self.items) > 0 THEN <<h[self.items[1]].pid>> ELSE <<>>
      tid == IF Len(self.items) > 0 THEN <<h[self.items[1]].tid>> ELSE <<>>
      r == JoinLoop(h, other.items, 1, self.time_offset, pid, tid, 0, self.items)
  IN [heap |-> r.heap,
      self |-> [self EXCEPT !.items = r.items,
                            !.time_offset = self.time_offset + r.last]]

\* The path table of the run's PathShortener: empty unless the caller adds
\* paths, which clangalyzer's command line does only for --short-path.
ShortPaths == <<>>

\* TimingData._shorten_paths_if_needed on the serialized events: str.replace
\* of every configured path, here on the fragments of the names.
shorten_paths_if_needed(events, paths) ==
  IF DOMAIN paths = {} THEN events
  ELSE [i \in DOMAIN events |->
          [events[i] EXCEPT !.name =
            [j \in DOMAIN events[i].name |->
               IF events[i].name[j] \in DOMAIN paths
               THEN paths[events[i].name[j]] ELSE events[i].name[j]]]]

\* The keys of the object TimingData.write dumps (line 207).
WrittenKeys == {KeyTrace}

\* The document TimingData.write serializes for a non-empty accumulator
\* (lines 199-212).
TimingData_write_doc(h, self) ==
  Doc("object", WrittenKeys,
      shorten_paths_if_needed([i \in DOMAIN self.items |-> json_dict(h[self.items[i]])],
                              ShortPaths))

\* TimingData.write, lines 199-203: the heap after json_dict was called on
\* every item of a non-empty accumulator.
TimingData_write_heap(h, self) ==
  [i \in DOMAIN h |->
     IF \E k \in DOMAIN self.items : self.items[k] = i THEN json_dict_self(h[i])
     ELSE h[i]]

\* The loop of TimingData.calculate_total_time (lines 161-165) from the k-th
\* item on: the offset found, or ok = FALSE for log_error_and_exit.
RECURSIVE CalcLoop(_, _, _, _)
CalcLoop(h, ids, k, off) ==
  IF k > Len(ids) THEN [ok |-> TRUE, off |-> off]
  ELSE IF is_total_execute_compiler(h[ids[k]])
       THEN IF off # 0 THEN [ok |-> FALSE, off |-> off]
            ELSE CalcLoop(h, ids, k + 1, get_total_time(h[ids[k]]))
       ELSE CalcLoop(h, ids, k + 1, off)

\* TimingData.calculate_total_time.
TimingData_calculate_total_time(h, self) ==
  IF self.time_offset = 0 THEN CalcLoop(h, self.items, 1, 0)
  ELSE [ok |-> TRUE, off |-> self.time_offset]

\* os.path.split(path): the path above the last component, and that
\* component (the empty string, <<>>, when there is none).
os_path_split(path) ==
  IF path = <<>> THEN [head |-> <<>>, tail |-> <<>>]
  ELSE [head |-> SubSeq(path, 1, Len(path) - 1), tail |-> path[Len(path)]]

BuildSuffix == ".build"

SharedPrecompiledHeaders == <<"SharedPrecompiledHeaders">>

\* str.endswith on a name given as the sequence of its fragments.
EndsWith(name, suffix) == name # <<>> /\ name[Len(name)] = suffix

\* Mutant of the classifier: the directory above the architecture's is not
\* skipped.
target_and_platform_and_arch_no_skip(path) ==
  LET s1 == os_path_split(path)
      s2 == os_path_split(s1.head)
      s4 == os_path_split(s2.head)
  IN IF EndsWith(s4.tail, BuildSuffix)
     THEN <<[target |-> SubSeq(s4.tail, 1, Len(s4.tail) - 1),
             platform |-> os_path_split(s4.head).tail,
             arch |-> s2.tail]>>
     ELSE IF s4.tail = SharedPrecompiledHeaders
     THEN <<[target |-> s4.tail, platform |-> <<"-">>, arch |-> <<"-">>]>>
     ELSE <<>>

\* TimingData.target_and_platform_and_arch_from_path: <<>> is None, else the
\* one (target, platform, arch).
target_and_platform_and_arch_from_path(path) ==
  LET s1 == os_path_split(path)
      s2 == os_path_split(s1.head)
      s3 == os_path_split(s2.head)
      s4 == os_path_split(s3.head)
  IN IF EndsWith(s4.tail, BuildSuffix)
     THEN <<[target |-> SubSeq(s4.tail, 1, Len(s4.tail) - 1),
             platform |-> os_path_split(s4.head).tail,
             arch |-> s2.tail]>>
     ELSE IF s4.tail = SharedPrecompiledHeaders
     THEN <<[target |-> s4.tail, platform |-> <<"-">>, arch |-> <<"-">>]>>
     ELSE <<>>

\* --------------------------------------------------------------- Comparison

\* Python's None where a str is optional (the comparison name).
PyNone == "<None>"

\* Comparison._name_key (line 93).
NameKey == "*** Name ***"

\* The values of Comparison._dict: a string (the name) or a metric mapping.
JS(str) == [t |-> "str", s |-> str, m |-> [k \in {} |-> 0]]

JO(metrics) == [t |-> "obj", s |-> "", m |-> metrics]

\* Every key of the model in the order of Python's string comparison, which
\* json.JSONEncoder(sort_keys=True) writes them in.
KeyOrder ==
  <<"*** Name ***", "*** Total ***", "App", "Average CPU second per item",
    "Build Folder Sizes", "Clang Breakdown", "CodeGen Times", "ExecuteCompiler", "Lib",
    "Precompiled Header Sizes", "Serial Times", "Target Times", "Total CPU seconds">>

SortedKeys(D) == SelectSeq(KeyOrder, LAMBDA k : k \in D)

\* The JSON text of a metric mapping: its members in sorted key order.
EncodeMetrics(m) ==
  [i \in 1..Cardinality(DOMAIN m) |->
     [k |-> SortedKeys(DOMAIN m)[i], n |-> m[SortedKeys(DOMAIN m)[i]]]]

\* json.JSONEncoder(sort_keys=True, ...).encode(d): the members of the
\* object in sorted key order, each value encoded in turn.
JsonEncode(d) ==
  [i \in 1..Cardinality(DOMAIN d) |->
     LET k == SortedKeys(DOMAIN d)[i]
     IN [k |-> k, t |-> d[k].t, s |-> d[k].s, m |-> EncodeMetrics(d[k].m)]]

\* The last member of text with key k (a JSON decoder keeps the last).
LastWithKey(text, k) ==
  text[CHOOSE i \in DOMAIN text :
         text[i].k = k /\ \A j \in DOMAIN text : text[j].k = k => j <= i]

\* json.JSONDecoder().decode(text) of an object.
JsonDecode(text) ==
  [k \in {text[i].k : i \in DOMAIN text} |->
     LET e == LastWithKey(text, k)
     IN [t |-> e.t, s |-> e.s,
         m |-> [q \in {e.m[i].k : i \in DOMAIN e.m} |-> LastWithKey(e.m, q).n]]]

\* Comparison.__init__ without a filepath, with _set_name (lines 94-96, 115-118).
Comparison_new(name) ==
  [k \in {NameKey} |-> JS(IF name = PyNone THEN "" ELSE name)]

\* Comparison.__init__ with a filepath (lines 103-106) on the file's text.
Comparison_load(text) == JsonDecode(text)

\* Comparison.name.
Comparison_name(d) == IF NameKey \in DOMAIN d THEN d[NameKey].s ELSE ""

\* Mutant of Comparison_add_summary: the key is not checked, the mapping replaced.
Comparison_add_summary_overwrite(d, name, dict) ==
  [ok |-> TRUE, dict |-> DictPut(d, name, JO(dict))]

\* Comparison.add_summary: ok = FALSE is log_error_and_exit, the store untouched.
Comparison_add_summary(d, name, dict) ==
  IF name \in DOMAIN d THEN [ok |-> FALSE, dict |-> d]
  ELSE [ok |-> TRUE, dict |-> DictPut(d, name, JO(dict))]

\* Mutant of Comparison_write_to_file: the name entry is not written.
Comparison_write_to_file_no_name(d) == JsonEncode(DictRemove(d, NameKey))

\* Comparison.write_to_file: the text written to the file.
Comparison_write_to_file(d) == JsonEncode(d)

\* ------------------------------------------------- floats (IEEE 754 double)

\* A Python float is a sign sg (0 for zero), the Precision bits m of its
\* significand (most significant first, m[1] = 1) and the exponent e of
\* m[1]: its value is sg * SUM m[i] * 2^(e + 1 - i).
Precision == 53

Pow2(k) == IF k = 0 THEN 1 ELSE 2 ^ k

FZero == [sg |-> 0, m |-> [i \in 1..Precision |-> 0], e |-> 0]

\* The bits of a positive integer, most significant first.
RECURSIVE IntBits(_)
IntBits(n) == IF n = 0 THEN <<>> ELSE Append(IntBits(n \div 2), n % 2)

RECURSIVE BitsValue(_)
BitsValue(b) ==
  IF b = <<>> THEN 0 ELSE 2 * BitsValue(SubSeq(b, 1, Len(b) - 1)) + b[Len(b)]

\* b + 1 on a bit sequence; the carry out of the first bit is kept in front.
RECURSIVE BitsIncrement(_)
BitsIncrement(b) ==
  IF b = <<>> THEN <<1>>
  ELSE IF b[Len(b)] = 0 THEN Append(SubSeq(b, 1, Len(b) - 1), 1)
  ELSE Append(BitsIncrement(SubSeq(b, 1, Len(b) - 1)), 0)

AnyOne(b, from) == \E i \in from..Len(b) : b[i] = 1

\* Round to nearest, ties to even: the exact value has the bits b (b[1] = 1,
\* at least Precision of them) with exponent e, and more below them iff sticky.
RoundToDouble(sg, b, e, sticky) ==
  LET keep == SubSeq(b, 1, Precision)
      guard == IF Len(b) > Precision THEN b[Precision + 1] ELSE 0
      rest == sticky \/ AnyOne(b, Precision + 2)
      up == guard = 1 /\ (rest \/ keep[Precision] = 1)
      inc == BitsIncrement(keep)
  IN IF ~up THEN [sg |-> sg, m |-> keep, e |-> e]
     ELSE IF Len(inc) > Precision
     THEN [sg |-> sg, m |-> SubSeq(inc, 1, Precision), e |-> e + 1]
     ELSE [sg |-> sg, m |-> inc, e |-> e]

\* The exponent of n / d for positive integers: d * 2^e <= n < d * 2^(e+1).
RECURSIVE QuotientExponent(_, _)
QuotientExponent(n, d) ==
  IF n < d THEN QuotientExponent(2 * n, d) - 1
  ELSE IF n >= 2 * d THEN QuotientExponent(n, 2 * d) + 1
  ELSE 0

\* Quotient bits of r / d by long division (r < d) until acc holds n bits,
\* with the remainder.
RECURSIVE DivisionBits(_, _, _, _)
DivisionBits(r, d, n, acc) ==
  IF Len(acc) = n THEN [bits |-> acc, rem |-> r]
  ELSE IF 2 * r >= d THEN DivisionBits(2 * r - d, d, n, Append(acc, 1))
  ELSE DivisionBits(2 * r, d, n, Append(acc, 0))

\* a / b on two ints (b # 0): the correctly rounded quotient.
py_truediv(a, b) ==
  IF a = 0 THEN FZero
  ELSE LET n0 == IF a < 0 THEN -a ELSE a
           d0 == IF b < 0 THEN -b ELSE b
           sg == IF (a < 0) = (b < 0) THEN 1 ELSE -1
           e == QuotientExponent(n0, d0)
           n == IF e < 0 THEN n0 * Pow2(-e) ELSE n0
           d == IF e > 0 THEN d0 * Pow2(e) ELSE d0
           q == DivisionBits(n - d, d, Precision + 1, <<1>>)
       IN RoundToDouble(sg, q.bits, e, q.rem # 0)

\* The bits of b * c for a bit sequence b and an int c > 0: acc holds the
\* product bits of the last Len(acc) bits of b, and c0 is the carry into the
\* next one.
RECURSIVE BitsTimesFrom(_, _, _, _)
BitsTimesFrom(b, c, c0, acc) ==
  IF Len(acc) = Len(b) THEN IntBits(c0) \o acc
  ELSE LET t == b[Len(b) - Len(acc)] * c + c0
       IN IF t % 2 = 0 THEN BitsTimesFrom(b, c, t \div 2, <<0>> \o acc)
          ELSE BitsTimesFrom(b, c, t \div 2, <<1>> \o acc)

BitsTimes(b, c, c0) == BitsTimesFrom(b, c, c0, <<>>)

\* x * c for a float x and an int c > 0 (c converts to a float exactly).
py_float_mul(x, c) ==
  IF x.sg = 0 THEN FZero
  ELSE LET p == BitsTimes(x.m, c, 0)
       IN RoundToDouble(x.sg, p, x.e + (Len(p) - Precision), FALSE)

\* Long division of the bits b by an int c > 0, from bit i on with remainder
\* r: Precision + 1 quotient bits from the first 1 on, the remainder, and
\* the count of quotient zeros in front of them.
RECURSIVE FloatDivBits(_, _, _, _, _, _)
FloatDivBits(b, i, c, r, acc, lead) ==
  IF Len(acc) = Precision + 1 THEN [bits |-> acc, rem |-> r, lead |-> lead]
  ELSE LET t == 2 * r + (IF i <= Len(b) THEN b[i] ELSE 0)
       IN IF t >= c THEN FloatDivBits(b, i + 1, c, t - c, Append(acc, 1), lead)
          ELSE IF acc = <<>> THEN FloatDivBits(b, i + 1, c, t, acc, lead + 1)
          ELSE FloatDivBits(b, i + 1, c, t, Append(acc, 0), lead)

\* x / c for a float x and an int c > 0 (c converts to a float exactly).
py_float_div(x, c) ==
  IF x.sg = 0 THEN FZero
  ELSE LET q == FloatDivBits(x.m, 1, c, 0, <<>>, 0)
       IN RoundToDouble(x.sg, q.bits, x.e - q.lead, q.rem # 0)

\* int(x): the float truncated toward zero.
py_int(x) ==
  IF x.sg = 0 \/ x.e < 0 THEN 0
  ELSE x.sg * BitsValue(SubSeq(x.m, 1, x.e + 1))

\* float(n) for an int below 2^Precision: exact.
py_float(n) ==
  IF n = 0 THEN FZero
  ELSE LET b == IntBits(IF n < 0 THEN -n ELSE n)
       IN [sg |-> IF n < 0 THEN -1 ELSE 1,
           m |-> b \o [i \in 1..(Precision - Len(b)) |-> 0],
           e |-> Len(b) - 1]

\* x >= n for a float x and an int n.
FloatGeqInt(x, n) ==
  IF x.sg = 0 THEN 0 >= n
  ELSE IF x.sg = 1 THEN py_int(x) >= n
  ELSE py_int(x) > n \/ (py_int(x) = n /\ ~(x.e < 0) /\ ~AnyOne(x.m, x.e + 2))

\* x <= n for a float x and an int n.
FloatLeqInt(x, n) ==
  IF x.sg = 0 THEN 0 <= n
  ELSE IF x.sg = -1 THEN py_int(x) <= n
  ELSE py_int(x) < n \/ (py_int(x) = n /\ ~(x.e < 0) /\ ~AnyOne(x.m, x.e + 2))

\* "%0.<p>f" % x, as the signed count of 10^-p units printed, for scale =
\* 10^p: the exact value of x * scale rounded to nearest, ties to even.
py_format_fixed(x, scale) ==
  IF x.sg = 0 THEN 0
  ELSE LET p == BitsTimes(x.m, scale, 0)
           e == x.e + (Len(p) - Precision)
           whole == IF e < 0 THEN 0 ELSE BitsValue(SubSeq(p, 1, e + 1))
           guard == IF e < -1 THEN 0 ELSE IF e + 2 <= Len(p) THEN p[e + 2] ELSE 0
           rest == IF e < -1 THEN TRUE ELSE AnyOne(p, e + 3)
           up == guard = 1 /\ (rest \/ whole % 2 = 1)
       IN x.sg * (IF up THEN whole + 1 ELSE whole)

\* ----------------------------------------------------------- Delta Reporter

\* The members of ComparisonOutputType.
OutputTypes == {"NUMBER", "TIME_MILLISECONDS", "TIME_CPU_SECONDS", "FILESIZE"}

\* A formatted string: its format and the number the format prints (for a
\* fixed-point format the count of its last decimal place).
Text(fmt, n) == [fmt |-> fmt, n |-> n]

Dash == Text("-", 0)

\* ComparisonOutputType._filesize_to_shortened_string for a float value.
filesize_to_shortened_string(value, suffix) ==
  IF ~FloatGeqInt(value, 10)
  THEN Text(<<"%0.2f ", suffix>>, py_format_fixed(value, 100))
  ELSE IF ~FloatGeqInt(value, 100)
  THEN Text(<<"%0.1f ", suffix>>, py_format_fixed(value, 10))
  ELSE Text(<<"%d ", suffix>>, py_int(value))

\* Mutant of value_to_string: zero is formatted like any other value.
value_to_string_no_dash(outputType, value) ==
  IF outputType = "NUMBER" THEN Text(<<"%d">>, value)
  ELSE IF outputType = "TIME_CPU_SECONDS"
  THEN Text(<<"%0.2f sec">>, py_format_fixed(py_float(value), 100))
  ELSE IF outputType = "TIME_MILLISECONDS" THEN Text(<<"%d", "ms">>, value)
  ELSE Text(<<"%d", " bytes">>, value)

\* ComparisonOutputType.value_to_string for an int value.
value_to_string(outputType, value) ==
  IF value = 0 THEN Dash
  ELSE IF outputType = "NUMBER" THEN Text(<<"%d">>, value)
  ELSE IF outputType = "TIME_CPU_SECONDS"
  THEN Text(<<"%0.2f sec">>, py_format_fixed(py_float(value), 100))
  ELSE IF outputType = "TIME_MILLISECONDS"
  THEN IF value < 1000 THEN Text(<<"%d", "ms">>, value)
       ELSE Text(<<"%0.2f sec">>,
                 py_format_fixed(py_float_div(py_float(value), 1000), 100))
  ELSE IF outputType = "FILESIZE"
  THEN IF value < 1024 THEN Text(<<"%d", " bytes">>, value)
       ELSE LET kb == py_float_div(py_float(value), 1024)
                mb == py_float_div(kb, 1024)
                gb == py_float_div(mb, 1024)
            IN IF ~FloatGeqInt(kb, 1024) THEN filesize_to_shortened_string(kb, "KB")
               ELSE IF ~FloatGeqInt(mb, 1024) THEN filesize_to_shortened_string(mb, "MB")
               ELSE filesize_to_shortened_string(gb, "GB")
  ELSE Text(<<"AssertionError">>, 0)

\* utils.truncation.truncate_to_place for a float value: num multiplications
\* by 10.0, int(), and the division back.
RECURSIVE TimesTen(_, _)
TimesTen(value, num) ==
  IF num = 0 THEN value ELSE TimesTen(py_float_mul(value, 10), num - 1)

RECURSIVE OverTen(_, _)
OverTen(value, num) ==
  IF num = 0 THEN value ELSE OverTen(py_float_div(value, 10), num - 1)

truncate_to_place(value, num) ==
  LET whole == py_float(py_int(TimesTen(value, num)))
  IN IF num = 2 THEN py_float_div(whole, 100)
     ELSE IF num = 4 THEN py_float_div(whole, 10000)
     ELSE OverTen(whole, num)

\* The delta column: its format, the leading sign and the number printed.
Difference(fmt, plus, n) == [fmt |-> fmt, plus |-> plus, n |-> n]

LogLine(kind, key, last, cur, color, diff) ==
  [kind |-> kind, key |-> key, last |-> last, cur |-> cur, color |-> color, diff |-> diff]

\* Comparison.log_summary, lines 201-206: the delta column for last_value > 0.
DeltaString(last_value, value, plus_or_none) ==
  LET percentage == py_float_mul(py_truediv(last_value - value, last_value), 100)
  IN IF FloatGeqInt(percentage, 100) \/ FloatLeqInt(percentage, -100)
     THEN Difference("%s%d%%", plus_or_none, py_int(percentage))
     ELSE Difference("%s%0.2f%%", plus_or_none,
                     py_format_fixed(truncate_to_place(percentage, 2), 100))

\* Mutant of DeltaColumn: a zero prior is reported like a missing one.
DeltaColumn_zero_prior_na(last_value, value) ==
  IF last_value > 0
  THEN DeltaString(last_value, value, IF value < last_value THEN "+" ELSE "")
  ELSE Difference("n/a", "", 0)

\* Comparison.log_summary, lines 191-209: the leading sign and the delta
\* string of a key with a value on both sides; the percentage is computed
\* only for a positive prior, otherwise the infinity sign is printed.
DeltaColumn(last_value, value) ==
  IF last_value > 0
  THEN DeltaString(last_value, value, IF value < last_value THEN "+" ELSE "")
  ELSE Difference("%sinf%%", IF value < last_value THEN "+" ELSE "", 0)

\* Mutant of LineColor: equal values are coloured like bigger ones.
LineColor_no_equal(last_value, value, smaller_is_better) ==
  IF value < last_value THEN (IF smaller_is_better THEN "green" ELSE "red")
  ELSE (IF smaller_is_better THEN "red" ELSE "green")

\* Comparison.log_summary, lines 159-162 and 192-197: the colour of a line
\* whose key has a value on both sides.
LineColor(last_value, value, smaller_is_better) ==
  IF value < last_value THEN (IF smaller_is_better THEN "green" ELSE "red")
  ELSE IF value > last_value THEN (IF smaller_is_better THEN "red" ELSE "green")
  ELSE "light_grey"

\* Mutant of SummaryLine: a zero prior and current pair is not set apart.
SummaryLine_no_zero_rule(key, units, summary, last_summary, smaller_is_better) ==
  LET last_value_string == IF key \in DOMAIN last_summary
                           THEN value_to_string(units, last_summary[key]) ELSE Dash
      value_string == IF key \in DOMAIN summary
                      THEN value_to_string(units, summary[key]) ELSE Dash
  IN IF key \notin DOMAIN last_summary \/ key \notin DOMAIN summary
     THEN LogLine("data", key, last_value_string, value_string, "light_grey",
                  Difference("n/a", "", 0))
     ELSE LogLine("data", key, last_value_string, value_string,
                  LineColor(last_summary[key], summary[key], smaller_is_better),
                  DeltaColumn(last_summary[key], summary[key]))

\* Comparison.log_summary, lines 171-211: the line logged for one key.
SummaryLine(key, units, summary, last_summary, smaller_is_better) ==
  LET last_value_string == IF key \in DOMAIN last_summary
                           THEN value_to_string(units, last_summary[key]) ELSE Dash
      value_string == IF key \in DOMAIN summary
                      THEN value_to_string(units, summary[key]) ELSE Dash
  IN IF \/ key \notin DOMAIN last_summary
        \/ key \notin DOMAIN summary
        \/ (last_summary[key] = 0 /\ summary[key] = 0)
     THEN LogLine("data", key, last_value_string, value_string, "light_grey",
                  Difference("n/a", "", 0))
     ELSE LogLine("data", key, last_value_string, value_string,
                  LineColor(last_summary[key], summary[key], smaller_is_better),
                  DeltaColumn(last_summary[key], summary[key]))

\* Mutant of SummaryKeys: only the current summary's keys are listed.
SummaryKeys_current_only(summary, last_summary) == SortedKeys(DOMAIN summary)

\* Comparison.log_summary, lines 166-169: the sorted union of the key sets.
SummaryKeys(summary, last_summary) ==
  SortedKeys(DOMAIN summary \cup DOMAIN last_summary)

\* Comparison.log_summary: the lines it logs, the title and the column
\* header first.
log_summary(key, units, summary, last_summary, smaller_is_better) ==
  LET keys == SummaryKeys(summary, last_summary)
  IN <<LogLine("title", key, Dash, Dash, "", Difference("", "", 0)),
       LogLine("header", "Name", Text(<<"Last">>, 0), Text(<<"Current">>, 0), "",
               Difference("Delta", "", 0))>>
     \o [i \in 1..Len(keys) |->
           SummaryLine(keys[i], units, summary, last_summary, smaller_is_better)]

\* ------------------------------------------------------------------ Context

\* A path is the sequence of its components: os.path.join(p, c) is
\* Append(p, c), os.path.split(p)[0] is Parent(p), and <<>> stands for None
\* where a path is optional.
Parent(p) == SubSeq(p, 1, Len(p) - 1)

\* os.path.isfile, os.path.isdir and os.path.exists on file system f.
IsFile(f, p) == p \in DOMAIN f /\ f[p].kind = "file"

IsDir(f, p) == p \in DOMAIN f /\ f[p].kind = "dir"

Exists(f, p) == p \in DOMAIN f /\ f[p].kind # "none"

\* Every entry name of the model in the order of Python's string comparison.
NameOrder == <<"1", "2", "3", "comparison.json">>

Reverse(q) == [i \in 1..Len(q) |-> q[Len(q) + 1 - i]]

\* Mutant of ListingDescending: the sorted listing is not reversed.
ListingAscending(f, p) ==
  SelectSeq(NameOrder, LAMBDA n : Exists(f, Append(p, n)))

\* os.listdir(p), then listing.sort() and listing.reverse() (lines 158-160).
ListingDescending(f, p) ==
  Reverse(SelectSeq(NameOrder, LAMBDA n : Exists(f, Append(p, n))))

LocResult(rule, root, from, cmp) ==
  [rule |-> rule, root |-> root, from |-> from, cmp |-> cmp]

\* The loop of Context._find_last_comparison over the listing (lines 161-190),
\* from its k-th entry on.
RECURSIVE SearchLoop(_, _, _, _, _)
SearchLoop(f, c, root, listing, k) ==
  IF k > Len(listing) THEN LocResult("search", root, <<>>, <<>>)
  ELSE LET output_path == Append(root, listing[k])
           comparison_file_path == Append(output_path, c.comparison_file_name)
       IN IF output_path = c.output_path THEN SearchLoop(f, c, root, listing, k + 1)
          ELSE IF ~IsDir(f, output_path) THEN SearchLoop(f, c, root, listing, k + 1)
          ELSE IF ~Exists(f, comparison_file_path)
               THEN SearchLoop(f, c, root, listing, k + 1)
          ELSE LET possible == Comparison_load(f[comparison_file_path].text)
               IN IF c.comparison_name # PyNone
                     /\ Comparison_name(possible) # c.comparison_name
                  THEN SearchLoop(f, c, root, listing, k + 1)
                  ELSE LocResult("search", root, comparison_file_path, <<possible>>)

\* Mutant of FindInDirectory: the directory is never taken as a specific run.
FindInDirectory_always_search(f, c, dir) ==
  SearchLoop(f, c, dir, ListingDescending(f, dir), 1)

\* Context._find_last_comparison, lines 140-155: an explicit directory is a
\* specific run when it holds the snapshot file, else the search root.
FindInDirectory(f, c, dir) ==
  IF Exists(f, Append(dir, c.comparison_file_name))
  THEN LocResult("specific", <<>>, Append(dir, c.comparison_file_name),
                 <<Comparison_load(f[Append(dir, c.comparison_file_name)].text)>>)
  ELSE SearchLoop(f, c, dir, ListingDescending(f, dir), 1)

\* Context._find_last_comparison: the rule that decided, the search root (if
\* searched), the file loaded (if any) and the Comparison (<<>> is None).
Context_find_last_comparison(f, c) ==
  IF ~c.run_comparison THEN LocResult("disabled", <<>>, <<>>, <<>>)
  ELSE IF c.last_comparison_file_path # <<>> /\ IsFile(f, c.last_comparison_file_path)
  THEN LocResult("file", <<>>, c.last_comparison_file_path,
                 <<Comparison_load(f[c.last_comparison_file_path].text)>>)
  ELSE IF c.last_comparison_file_path # <<>> /\ IsDir(f, c.last_comparison_file_path)
  THEN FindInDirectory(f, c, c.last_comparison_file_path)
  ELSE SearchLoop(f, c, Parent(c.output_path),
                  ListingDescending(f, Parent(c.output_path)), 1)

\* ------------------------------------------------------------------ the run

\* The string of a name that is one fragment long.
NameString(name) == name[1]

\* Clangalyzer._find_build_data over the discovered files from the k-th on:
\* each is classified and parsed (_process_item, lines 158-172) and kept when
\* both succeed. st is "running", or how a parse ended the run.
RECURSIVE FindBuildData(_, _, _, _)
FindBuildData(files, k, h, srcs) ==
  IF k > Len(files) THEN [st |-> "running", heap |-> h, sources |-> srcs]
  ELSE LET tpa == target_and_platform_and_arch_from_path(files[k].path)
           r == TimingData_parse(NameString(os_path_split(files[k].path).tail),
                                 files[k].doc)
       IN IF tpa = <<>> THEN FindBuildData(files, k + 1, h, srcs)
          ELSE IF r.result \in {"fatal", "exception"}
          THEN [st |-> r.result, heap |-> h, sources |-> srcs]
          ELSE IF r.result = "false" THEN FindBuildData(files, k + 1, h, srcs)
          ELSE FindBuildData(files, k + 1, h \o r.items,
                 Append(srcs, [path |-> files[k].path,
                               items |-> [i \in 1..Len(r.items) |-> Len(h) + i],
                               time_offset |-> 0,
                               target |-> tpa[1].target]))

\* ToolFindMostExpensiveFiles: calculate_total_time on every TimingData (lines
\* 55 and 70), from the k-th on; ok = FALSE is log_error_and_exit.
RECURSIVE CalculateAll(_, _, _)
CalculateAll(h, srcs, k) ==
  IF k > Len(srcs) THEN [ok |-> TRUE, sources |-> srcs]
  ELSE LET r == TimingData_calculate_total_time(h, srcs[k])
       IN IF ~r.ok THEN [ok |-> FALSE, sources |-> srcs]
          ELSE CalculateAll(h, [srcs EXCEPT ![k].time_offset = r.off], k + 1)

\* The sum of get_duration() over the sentinels among the items ids.
RECURSIVE SentinelDurations(_, _)
SentinelDurations(h, ids) ==
  IF ids = <<>> THEN 0
  ELSE (IF is_total_execute_compiler(h[ids[1]]) THEN get_duration(h[ids[1]]) ELSE 0)
       + SentinelDurations(h, Tail(ids))

\* ToolOutputTargetTimes.run, lines 39-50: target_times after the loop.
RECURSIVE TargetTimes(_, _)
TargetTimes(h, srcs) ==
  IF srcs = <<>> THEN <<>>
  ELSE LET before == TargetTimes(h, SubSeq(srcs, 1, Len(srcs) - 1))
           td == srcs[Len(srcs)]
           target == NameString(td.target)
           existing_time == IF target \in DOMAIN before THEN before[target] ELSE 0
       IN DictPut(before, target, existing_time + SentinelDurations(h, td.items))

RECURSIVE SumOf(_)
SumOf(f) ==
  IF DOMAIN f = {} THEN 0
  ELSE LET k == CHOOSE x \in DOMAIN f : TRUE IN f[k] + SumOf(DictRemove(f, k))

\* Mutant of TargetTimesSummary: the microseconds are not divided by 1000.
TargetTimesSummary_microseconds(h, srcs) ==
  LET target_times == TargetTimes(h, srcs)
  IN DictPut(target_times, "*** Total ***", SumOf(target_times))

\* ToolOutputTargetTimes.run, lines 60-75: the summary, with int(t / 1000)
\* milliseconds per target and for the total.
TargetTimesSummary(h, srcs) ==
  LET target_times == TargetTimes(h, srcs)
  IN DictPut([t \in DOMAIN target_times |-> py_int(py_truediv(target_times[t], 1000))],
             "*** Total ***", py_int(py_truediv(SumOf(target_times), 1000)))

\* ToolSerializeProjectTrace.run, lines 50-52: every TimingData joined in turn.
RECURSIVE JoinAll(_, _, _, _)
JoinAll(h, self, srcs, k) ==
  IF k > Len(srcs) THEN [heap |-> h, self |-> self]
  ELSE LET r == TimingData_join(h, self, srcs[k])
       IN JoinAll(r.heap, r.self, srcs, k + 1)

\* ToolSerializeProjectTrace.run, lines 56-66: the summary of the merged trace.
SerialTimesSummary(total_time, count) ==
  LET total_seconds == truncate_to_place(py_truediv(total_time, 1000000), 4)
      average_seconds ==
        truncate_to_place(py_float_div(total_seconds, IF count = 0 THEN 1 ELSE count), 2)
  IN ("Total CPU seconds" :> total_seconds) @@
     ("Average CPU second per item" :> average_seconds)

\* Mutant of SerializeOutcome: a write that returns False is ignored.
SerializeOutcome_ignore_failure(io, empty) ==
  IF empty THEN "running"
  ELSE IF io = "open_fails" THEN "exception"
  ELSE "running"

\* ToolSerializeProjectTrace.run, lines 53-55, with TimingData.write, lines
\* 193-222: how the run goes on after the write. An empty accumulator writes
\* nothing and returns True; open raising, or the close that flushes, is
\* caught nowhere ("open_fails"); f.write raising makes write return False,
\* which ends the run in log_error_and_exit.
SerializeOutcome(io, empty) ==
  IF empty THEN "running"
  ELSE IF io = "open_fails" THEN "exception"
  ELSE IF io = "write_fails" THEN "fatal"
  ELSE "running"

\* Clangalyzer.all_tools: the default tools in the order they run.
Tools ==
  <<"FindMostExpensiveFiles", "FindMostExpensiveIncludes", "FindMostExpensiveCodeGen",
    "GatherTraceFiles", "OutputTargetTimes", "SerializeProjectTrace",
    "ShowBuildFolderSize", "ShowPrecompHeaderSizes", "ClangBreakdown">>

\* Mutant of ToolKey: the clang breakdown reuses the serializer's key.
ToolKey_shared(tool) ==
  CASE tool = "FindMostExpensiveCodeGen" -> "CodeGen Times"
    [] tool = "OutputTargetTimes" -> "Target Times"
    [] tool = "SerializeProjectTrace" -> "Serial Times"
    [] tool = "ShowBuildFolderSize" -> "Build Folder Sizes"
    [] tool = "ShowPrecompHeaderSizes" -> "Precompiled Header Sizes"
    [] tool = "ClangBreakdown" -> "Serial Times"
    [] OTHER -> PyNone

\* The _comparison_key each tool's __init__ sets and its run passes to
\* add_summary; three tools have none and add nothing.
ToolKey(tool) ==
  CASE tool = "FindMostExpensiveCodeGen" -> "CodeGen Times"
    [] tool = "OutputTargetTimes" -> "Target Times"
    [] tool = "SerializeProjectTrace" -> "Serial Times"
    [] tool = "ShowBuildFolderSize" -> "Build Folder Sizes"
    [] tool = "ShowPrecompHeaderSizes" -> "Precompiled Header Sizes"
    [] tool = "ClangBreakdown" -> "Clang Breakdown"
    [] OTHER -> PyNone

\* The sum of the sentinels' durations over every TimingData.
RECURSIVE AllSentinelDurations(_, _)
AllSentinelDurations(h, srcs) ==
  IF srcs = <<>> THEN 0
  ELSE SentinelDurations(h, srcs[1].items) + AllSentinelDurations(h, Tail(srcs))

\* ToolClangBreakdown.run, lines 33-74: the durations of the "Total ..." items
\* by short name, in milliseconds. The only such items of the model are the
\* sentinels; a name whose seconds print as "0.0" is left out.
ClangBreakdownSummary(h, srcs) ==
  LET total_duration == AllSentinelDurations(h, srcs)
      total_duration_ms == py_int(py_truediv(total_duration, 1000))
  IN IF total_duration < 10000 THEN ("*** Total ***" :> total_duration_ms)
     ELSE ("ExecuteCompiler" :> total_duration_ms) @@ ("*** Total ***" :> total_duration_ms)

\* Logger.log, lines 70-98: the line joins _internal_lines and is printed
\* unless quiet_output is set.
Logger_log(r, message) ==
  [r EXCEPT !.lines = Append(@, message),
            !.printed = IF r.quiet THEN @ ELSE Append(@, message)]

\* Logger.log_error_and_exit, lines 65-68: the error is logged, then
\* sys.exit(1); the status of the run becomes "fatal".
Logger_log_error_and_exit(r) == Logger_log(r, "ERROR")

\* What is logged by a step that ended with status st.
LoggedEnd(r, st) == IF st = "fatal" THEN Logger_log_error_and_exit(r) ELSE r

\* Clangalyzer._run_tools, lines 78-86: on to the next tool, and after the
\* last one to _finalize_comparison; a run that ended stays where it is.
AfterTool(r, st) ==
  IF st # "running" THEN LoggedEnd(r, st)
  ELSE [r EXCEPT !.k = @ + 1,
                 !.pc = IF r.k = Len(Tools) THEN "finalize" ELSE "tools"]

\* Mutant of ToolsCompared: the prior is not checked against None.
ToolsCompared_without_prior(run_comparison, last) ==
  IF run_comparison THEN Tools ELSE <<>>

\* Clangalyzer._finalize_comparison, lines 222-229: the tools whose
\* process_comparison is called, enabled or not.
ToolsCompared(run_comparison, last) ==
  IF run_comparison /\ last # <<>> THEN Tools ELSE <<>>

\* ------------------------------------------------------------------ state

VARIABLES
  status,     \* "running"; "fatal" after sys.exit(1); "exception" after an uncaught exception
  heap,       \* the TimingDataItem objects, by reference (index)
  sources,    \* the TimingData parsed from the input files, in discovery order
  acc,        \* the accumulator TimingData of the serial trace
  joinLog,    \* history: one entry per join call, the source's items before and after
  written,    \* the file TimingData.write left at the accumulator's path
  reparsed,   \* what TimingData.parse made of the written file
  inDoc,      \* the content of one candidate input file
  parseOut,   \* what Clangalyzer._process_item got from parsing inDoc
  store,      \* Comparison._dict of the current run's Summary Store
  lastAdd,    \* history: the last add_summary call and whether its key was present
  inserts,    \* history: per key, the metric mappings add_summary stored, in order
  snap,       \* the snapshot file write_to_file left, and the store it was written from
  loaded,     \* Comparison._dict of a Comparison loaded from the snapshot file
  fs,         \* the file system: path -> [kind, text]
  ctx,        \* the Context's settings: run_comparison, last_comparison_file_path, ...
  last_comparison, \* Context._last_comparison: <<>> is None, <<d>> a Comparison with _dict d
  located,    \* history: how _find_last_comparison got its result
  deltaIn,    \* the arguments of one Comparison.log_summary call
  report,     \* the lines that call logged, in order
  rendered,   \* one ComparisonOutputType.value_to_string call and its result
  classified, \* one path given to the path classifier, and the result
  run         \* a whole run: the step Clangalyzer.run is at, and the files it finds

traceVars == <<heap, sources, acc, joinLog, written, reparsed>>

parseVars == <<inDoc, parseOut>>

storeVars == <<store, lastAdd, inserts, snap, loaded>>

locVars == <<fs, ctx, last_comparison, located>>

reportVars == <<deltaIn, report, rendered, classified>>

\* A run that reads files, with the tools in disabled switched off and the
\* Logger quiet or not, at step pc (tool k when pc is "tools"). lines is
\* Logger._internal_lines, printed what reached the screen, log_file the
\* content of log.log once written (in a 1-tuple), ran the tools whose run
\* was called, compared those whose process_comparison was called, created
\* whether the run made its folder, ended the runs that ended before it.
NewRun(files, disabled, quiet, ended) ==
  [pc |-> "initialize", k |-> 0, files |-> files, disabled |-> disabled, quiet |-> quiet,
   lines |-> <<>>, printed |-> <<>>, log_file |-> <<>>, ran |-> <<>>, compared |-> <<>>,
   created |-> FALSE, ended |-> ended]

NoRun == [NewRun(<<>>, {}, FALSE, {}) EXCEPT !.pc = "none"]

vars == <<status, heap, sources, acc, joinLog, written, reparsed, inDoc, parseOut,
          store, lastAdd, inserts, snap, loaded, fs, ctx, last_comparison, located,
          deltaIn, report, rendered, classified, run>>

\* The names of the discovered trace files, in discovery order.
SourceNames == <<"a.json", "b.json">>

SerialTraceName == "serial_trace.json"

\* All sequences over S of length at most n.
SeqsUpTo(S, n) == UNION {[1..k -> S] : k \in 0..n}

\* The event objects of the merged trace files: well-formed spans, with and
\* without the sentinel name, starting at 0 or later, in two variants v that
\* differ in duration (v), process (v) and thread (v + 2).
MergeEvents ==
  {Ev(n, ts, v, v, v + 2) :
     n \in {TotalExecuteCompiler, ExecuteCompiler}, ts \in {0, 1}, v \in {1, 2}}

NoDoc == Doc("none", {}, <<>>)

NoParse == [result |-> "none", items |-> <<>>]

NoWrite == [state |-> "none", doc |-> NoDoc, of |-> <<>>, n |-> 0]

TraceIdle ==
  /\ heap = <<>>
  /\ sources = <<>>
  /\ acc = [path |-> SerialTraceName, items |-> <<>>, time_offset |-> 0]
  /\ joinLog = <<>>
  /\ written = NoWrite
  /\ reparsed = NoParse

ParseIdle ==
  /\ inDoc = NoDoc
  /\ parseOut = NoParse

NoAdd == [key |-> "", present |-> FALSE]

NoSnap == [exists |-> FALSE, text |-> <<>>, of |-> <<>>]

NoLoad == [some |-> FALSE, dict |-> <<>>]

StoreIdle ==
  /\ store = <<>>
  /\ lastAdd = NoAdd
  /\ inserts = <<>>
  /\ snap = NoSnap
  /\ loaded = NoLoad

NotLocated == [done |-> FALSE, rule |-> "", root |-> <<>>, from |-> <<>>]

LocIdle ==
  /\ fs = <<>>
  /\ ctx = <<>>
  /\ last_comparison = <<>>
  /\ located = NotLocated

NoDelta ==
  [key |-> "", units |-> "NUMBER", summary |-> <<>>, last_summary |-> <<>>,
   smaller_is_better |-> TRUE]

NotRendered == [done |-> FALSE, units |-> "NUMBER", value |-> 0, text |-> Dash]

NotClassified == [done |-> FALSE, path |-> <<>>, result |-> <<>>]

ReportIdle ==
  /\ deltaIn = NoDelta
  /\ report = <<>>
  /\ rendered = NotRendered
  /\ classified = NotClassified

\* ------------------------------------------------------- merge and serialize

\* TimingData(path, ...) and parse of a schema-valid trace file holding evs
\* (Clangalyzer._process_item, lines 166-172): the new source is kept. The
\* files are parsed before any tool runs (Clangalyzer.run, lines 56-57).
ParseFile(evs) ==
  /\ status = "running"
  /\ joinLog = <<>> /\ written.state = "none"
  /\ Len(sources) < Len(SourceNames)
  /\ Len(heap) + Len(evs) <= MaxItems
  /\ LET name == SourceNames[Len(sources) + 1]
         r == TimingData_parse(name, Doc("object", {KeyBegin, KeyTrace}, evs))
     IN /\ r.result = "true"
        /\ heap' = heap \o r.items
        /\ sources' = Append(sources,
               [path |-> name,
                items |-> [k \in 1..Len(r.items) |-> Len(heap) + k],
                time_offset |-> 0])
  /\ UNCHANGED <<status, acc, joinLog, written, reparsed, parseVars, storeVars, locVars, reportVars, run>>

\* entire_td.join(sources[i], log) (ToolSerializeProjectTrace.run, line 52).
Join(i) ==
  /\ status = "running"
  /\ written.state = "none"
  /\ i \in 1..Len(sources)
  /\ Len(joinLog) < MaxJoins
  /\ LET r == TimingData_join(heap, acc, sources[i])
         ids == sources[i].items
     IN /\ heap' = r.heap
        /\ acc' = r.self
        /\ joinLog' = Append(joinLog,
               [src |-> i,
                off |-> acc.time_offset,
                pre |-> [k \in DOMAIN ids |-> heap[ids[k]]],
                post |-> [k \in DOMAIN ids |-> r.heap[ids[k]]]])
  /\ UNCHANGED <<status, sources, written, reparsed, parseVars, storeVars, locVars, reportVars, run>>

\* entire_td.write(path_shortener, log), after the joins
\* (ToolSerializeProjectTrace.run, lines 51-55). An empty accumulator returns True
\* and touches no file; otherwise open(path, 'w') truncates the file and
\* f.write either stores the text or raises (ioOk = FALSE), which write
\* reports by returning False.
Write(ioOk) ==
  /\ status = "running"
  /\ written.n < MaxWrites
  /\ written' =
       IF Len(acc.items) = 0 THEN [written EXCEPT !.n = @ + 1]
       ELSE [state |-> IF ioOk THEN "true" ELSE "false",
             doc |-> IF ioOk THEN TimingData_write_doc(heap, acc)
                     ELSE Doc("badjson", {}, <<>>),
             of |-> [k \in DOMAIN acc.items |-> heap[acc.items[k]]],
             n |-> written.n + 1]
  /\ heap' = TimingData_write_heap(heap, acc)
  /\ reparsed' = NoParse
  /\ UNCHANGED <<status, sources, acc, joinLog, parseVars, storeVars, locVars, reportVars, run>>

\* TimingData(path of the serial trace).parse(log) on the file write left.
Reparse ==
  /\ status = "running"
  /\ written.state # "none"
  /\ reparsed = NoParse
  /\ reparsed' = TimingData_parse(SerialTraceName, written.doc)
  /\ status' = IF reparsed'.result \in {"fatal", "exception"} THEN reparsed'.result
               ELSE status
  /\ UNCHANGED <<heap, sources, acc, joinLog, written, parseVars, storeVars, locVars, reportVars, run>>

InitMerge == status = "running" /\ TraceIdle /\ ParseIdle /\ StoreIdle /\ LocIdle /\ ReportIdle /\ run = NoRun

NextMerge ==
  \/ \E evs \in SeqsUpTo(MergeEvents, MaxItems) : ParseFile(evs)
  \/ \E i \in DOMAIN SourceNames : Join(i)
  \/ \E ioOk \in BOOLEAN : Write(ioOk)
  \/ Reparse

SpecMerge == InitMerge /\ [][NextMerge]_vars

\* ---------------------------------------------------- parsing one input file

\* Event objects with any of ts, dur, pid, tid missing, and complete ones
\* holding a numeric string or a string int() rejects under one key.
ParseEvents ==
  {[name |-> TotalExecuteCompiler, num |-> [k \in D |-> JInt(1)]] : D \in SUBSET NumKeys}
  \cup {[name |-> TotalExecuteCompiler,
         num |-> [k \in NumKeys |-> IF k = q THEN v ELSE JInt(1)]] :
           q \in NumKeys, v \in {JNumStr(2), JBadStr}}

TwoKeys == {KeyBegin, KeyTrace}

\* The contents a candidate .json file can have: undecodable bytes, text that
\* is not JSON, a top-level number, boolean, null, array or string, an object
\* whose keys are not the two of the schema, and schema-valid trace files.
ParseDocs ==
  {Doc(k, {}, <<>>) : k \in {"undecodable", "badjson", "number", "bool", "null"}}
  \cup {Doc(k, ks, <<>>) : k \in {"array", "string"}, ks \in SUBSET TwoKeys}
  \cup {Doc("object", ks, <<>>) : ks \in (SUBSET (TwoKeys \cup {"extra"})) \ {TwoKeys}}
  \cup {Doc("object", TwoKeys, evs) : evs \in SeqsUpTo(ParseEvents, MaxParseEvents)}

\* Clangalyzer._process_item, lines 166-172: td = TimingData(...), td.parse(log);
\* a False result drops the file and the scan continues.
ProcessItem ==
  /\ status = "running"
  /\ parseOut = NoParse
  /\ parseOut' = TimingData_parse("in.json", inDoc)
  /\ status' = IF parseOut'.result \in {"fatal", "exception"} THEN parseOut'.result
               ELSE status
  /\ UNCHANGED <<inDoc, traceVars, storeVars, locVars, reportVars, run>>

InitParse ==
  /\ status = "running" /\ TraceIdle /\ StoreIdle /\ LocIdle /\ ReportIdle /\ run = NoRun
  /\ inDoc \in ParseDocs /\ parseOut = NoParse

NextParse == ProcessItem

SpecParse == InitParse /\ [][NextParse]_vars

\* ------------------------------------------------------------ Summary Store

\* The names a run can be given: none (--comparison-name absent), empty, a tag.
RunNames == {PyNone, "", "nightly"}

\* The keys add_summary is called with: two tools' keys and the reserved one.
AddKeys == {"Target Times", "Serial Times", NameKey}

MetricKeys == {"*** Total ***", "App"}

\* The metric mappings a tool contributes.
MetricMaps == UNION {[D -> {1, 2}] : D \in SUBSET MetricKeys}

\* context.comparison().add_summary(log, key, metrics), as the tools call it.
AddSummary(key, metrics) ==
  /\ status = "running"
  /\ LET r == Comparison_add_summary(store, key, metrics)
     IN /\ store' = r.dict
        /\ status' = IF r.ok THEN status ELSE "fatal"
        /\ lastAdd' = [key |-> key, present |-> key \in DOMAIN store]
        /\ inserts' = IF r.ok
                      THEN DictPut(inserts, key,
                             IF key \in DOMAIN inserts
                             THEN Append(inserts[key], metrics) ELSE <<metrics>>)
                      ELSE inserts
  /\ UNCHANGED <<snap, loaded, traceVars, parseVars, locVars, reportVars, run>>

\* Clangalyzer._finalize_comparison, lines 233-239: the store is written to
\* the snapshot file of the run's output directory.
SaveSnapshot ==
  /\ status = "running"
  /\ snap' = [exists |-> TRUE, text |-> Comparison_write_to_file(store), of |-> store]
  /\ loaded' = NoLoad
  /\ UNCHANGED <<status, store, lastAdd, inserts, traceVars, parseVars, locVars, reportVars, run>>

\* Comparison(log, filepath = the snapshot file): a later run loads it.
LoadSnapshot ==
  /\ snap.exists
  /\ ~loaded.some
  /\ loaded' = [some |-> TRUE, dict |-> Comparison_load(snap.text)]
  /\ UNCHANGED <<status, store, lastAdd, inserts, snap, traceVars, parseVars, locVars, reportVars, run>>

InitStore ==
  /\ status = "running" /\ TraceIdle /\ ParseIdle /\ LocIdle /\ ReportIdle /\ run = NoRun
  /\ \E name \in RunNames : store = Comparison_new(name)
  /\ lastAdd = NoAdd
  /\ inserts = <<>>
  /\ snap = NoSnap
  /\ loaded = NoLoad

NextStore ==
  \/ \E key \in AddKeys, metrics \in MetricMaps : AddSummary(key, metrics)
  \/ SaveSnapshot
  \/ LoadSnapshot

SpecStore == InitStore /\ [][NextStore]_vars

\* --------------------------------------------------------- Snapshot Locator

\* Context.__init__'s default comparison_file_name (line 15).
ComparisonFileName == "comparison.json"

\* The output root given with --output and the path given with --comparison.
OutRoot == <<"out">>

Given == <<"given">>

\* The text of a snapshot file saved by a run named name; mark tells the
\* snapshots apart.
SnapText(name, mark) ==
  Comparison_write_to_file(
    DictPut(Comparison_new(name), "Target Times", JO([k \in {"*** Total ***"} |-> mark])))

\* What an entry of a searched directory can be: a file, a run folder without
\* a snapshot, a run folder with the snapshot of an unnamed or of a named run.
EntryStates == {"file", "empty", "unnamed", "nightly"}

StoredName(st) == IF st = "unnamed" THEN "" ELSE st

File(text) == [kind |-> "file", text |-> text]

Dir == [kind |-> "dir", text |-> <<>>]

\* The entries of file system f below dir for an entry named n in state st.
WithEntry(f, dir, n, st, mark) ==
  IF st = "file" THEN DictPut(f, Append(dir, n), File(<<>>))
  ELSE IF st = "empty" THEN DictPut(f, Append(dir, n), Dir)
  ELSE DictPut(DictPut(f, Append(dir, n), Dir),
               Append(Append(dir, n), ComparisonFileName),
               File(SnapText(StoredName(st), mark)))

\* The output root with the run folders "1", "2", "3": folder cur is the
\* current run's (just created, empty), the others are in states o[1], o[2].
OutFs(cur, o) ==
  LET others == SelectSeq(<<"1", "2", "3">>, LAMBDA n : n # cur)
      f0 == [p \in {OutRoot} |-> Dir]
      f1 == WithEntry(f0, OutRoot, cur, "empty", 0)
      f2 == WithEntry(f1, OutRoot, others[1], o[1], 1)
  IN WithEntry(f2, OutRoot, others[2], o[2], 2)

\* The states of the path given with --comparison: missing, a snapshot file,
\* or a directory with or without a snapshot file of its own and with two
\* entries.
GivenStates ==
  {[kind |-> "none", own |-> "empty", sub |-> <<"file", "file">>]}
  \cup {[kind |-> "file", own |-> n, sub |-> <<"file", "file">>] : n \in {"unnamed", "nightly"}}
  \cup {[kind |-> "dir", own |-> n, sub |-> e] :
          n \in {"empty", "unnamed", "nightly"}, e \in [1..2 -> EntryStates]}

GivenFs(f, g) ==
  IF g.kind = "none" THEN f
  ELSE IF g.kind = "file" THEN DictPut(f, Given, File(SnapText(StoredName(g.own), 3)))
  ELSE LET f0 == DictPut(f, Given, Dir)
           f1 == IF g.own = "empty" THEN f0
                 ELSE DictPut(f0, Append(Given, ComparisonFileName),
                              File(SnapText(StoredName(g.own), 3)))
           f2 == WithEntry(f1, Given, "1", g.sub[1], 4)
       IN WithEntry(f2, Given, "2", g.sub[2], 5)

\* Context.initialize, line 51, after _create_output_path made the run's folder.
FindLastComparison ==
  /\ status = "running"
  /\ ~located.done
  /\ LET r == Context_find_last_comparison(fs, ctx)
     IN /\ last_comparison' = r.cmp
        /\ located' = [done |-> TRUE, rule |-> r.rule, root |-> r.root, from |-> r.from]
  /\ UNCHANGED <<status, fs, ctx, traceVars, parseVars, storeVars, reportVars, run>>

InitLocator ==
  /\ status = "running" /\ TraceIdle /\ ParseIdle /\ StoreIdle /\ ReportIdle /\ run = NoRun
  /\ \E cur \in {"1", "2", "3"}, o \in [1..2 -> EntryStates], g \in GivenStates,
        path \in {<<>>, Given}, enabled \in BOOLEAN, name \in {PyNone, "nightly", "weekly"} :
       /\ fs = GivenFs(OutFs(cur, o), g)
       /\ ctx = [output_path |-> Append(OutRoot, cur),
                 run_comparison |-> enabled,
                 last_comparison_file_path |-> path,
                 comparison_file_name |-> ComparisonFileName,
                 comparison_name |-> name]
  /\ last_comparison = <<>>
  /\ located = NotLocated

NextLocator == FindLastComparison

SpecLocator == InitLocator /\ [][NextLocator]_vars

\* ----------------------------------------------------------- Delta Reporter

\* The metric values of the reported summaries.
DeltaValues == {0, 3, 5, 8, 17, 28, 40, 50, 100, 100000, 100001}

\* The summaries of one tool: metric "App" with any value or absent, the
\* total with a few.
DeltaSummaries ==
  UNION {[D -> DeltaValues] : D \in SUBSET {"App"}}
  \cup {DictPut(m, "*** Total ***", t) :
          m \in UNION {[D -> DeltaValues] : D \in SUBSET {"App"}}, t \in {0, 50}}

\* tool.process_comparison: Comparison.log_summary on the current and the
\* prior summary of the tool.
LogSummary ==
  /\ status = "running"
  /\ deltaIn # NoDelta
  /\ report = <<>>
  /\ report' = log_summary(deltaIn.key, deltaIn.units, deltaIn.summary,
                           deltaIn.last_summary, deltaIn.smaller_is_better)
  /\ UNCHANGED <<status, deltaIn, rendered, classified, traceVars, parseVars, storeVars, locVars, run>>

InitDelta ==
  /\ status = "running" /\ TraceIdle /\ ParseIdle /\ StoreIdle /\ LocIdle /\ run = NoRun
  /\ \E u \in OutputTypes, s \in DeltaSummaries, l \in DeltaSummaries, b \in BOOLEAN :
       deltaIn = [key |-> "Target Times", units |-> u, summary |-> s,
                  last_summary |-> l, smaller_is_better |-> b]
  /\ report = <<>>
  /\ rendered = NotRendered
  /\ classified = NotClassified

NextDelta == LogSummary

SpecDelta == InitDelta /\ [][NextDelta]_vars

\* The values formatted: zero and values around the ends of the bands of the
\* unit kinds, up to 20 MB.
FormatValues ==
  {0, 1, 5, 999, 1000, 1005, 1023, 1024, 10239, 10240, 102399, 102400,
   1048575, 1048576, 10485760, 20971520}

\* ComparisonOutputType.value_to_string(units, value).
ValueToString ==
  /\ status = "running"
  /\ ~rendered.done
  /\ rendered' = [rendered EXCEPT !.done = TRUE,
                                  !.text = value_to_string(rendered.units, rendered.value)]
  /\ UNCHANGED <<status, deltaIn, report, classified, traceVars, parseVars, storeVars, locVars, run>>

InitFormat ==
  /\ status = "running" /\ TraceIdle /\ ParseIdle /\ StoreIdle /\ LocIdle /\ run = NoRun
  /\ deltaIn = NoDelta
  /\ report = <<>>
  /\ classified = NotClassified
  /\ \E u \in OutputTypes, v \in FormatValues :
       rendered = [done |-> FALSE, units |-> u, value |-> v, text |-> Dash]

NextFormat == ValueToString

SpecFormat == InitFormat /\ [][NextFormat]_vars

\* ---------------------------------------------------------- Path Classifier

\* The names of the directories and files of the classified paths.
PathNames ==
  {<<"Target", ".build">>, <<".build">>, <<"Target">>, SharedPrecompiledHeaders,
   <<"Platform">>, <<"x86_64">>}

\* Clangalyzer._process_item, line 159: the classifier on a discovered path.
Classify ==
  /\ status = "running"
  /\ ~classified.done
  /\ classified' = [classified EXCEPT
                      !.done = TRUE,
                      !.result = target_and_platform_and_arch_from_path(classified.path)]
  /\ UNCHANGED <<status, deltaIn, report, rendered, traceVars, parseVars, storeVars, locVars, run>>

InitClassify ==
  /\ status = "running" /\ TraceIdle /\ ParseIdle /\ StoreIdle /\ LocIdle /\ run = NoRun
  /\ deltaIn = NoDelta
  /\ report = <<>>
  /\ rendered = NotRendered
  /\ \E path \in UNION {[1..n -> PathNames] : n \in 0..MaxPathLen} :
       classified = [done |-> FALSE, path |-> path, result |-> <<>>]

NextClassify == Classify

SpecClassify == InitClassify /\ [][NextClassify]_vars

\* ------------------------------------------------------------------ the run

\* The trace file of target tgt named n, holding the events evs.
TraceFile(tgt, n, evs) ==
  [path |-> <<<<"iphoneos">>, <<tgt, ".build">>, <<"Objects">>, <<"x86_64">>, <<n>>>>,
   doc |-> Doc("object", {KeyBegin, KeyTrace}, evs)]

\* The two trace files of a run: the first of target App with a sentinel of
\* 100000 microseconds and perhaps a span before it, the second of target Lib
\* or App with a sentinel of 200000 and perhaps one more; the sentinels start
\* at 0 or later. Or one trace file whose event has no "ts".
NoTsFiles ==
  <<TraceFile("App", "a.json",
      <<[Ev(ExecuteCompiler, 0, 7, 1, 3) EXCEPT !.num = DictRemove(@, "ts")]>>)>>

RunFiles ==
  {<<TraceFile("App", "a.json", pre \o <<Ev(TotalExecuteCompiler, ta, 100000, 1, 3)>>),
     TraceFile(tb, "b.json", <<Ev(TotalExecuteCompiler, sb, 200000, 2, 4)>> \o post)>> :
     pre \in {<<>>, <<Ev(ExecuteCompiler, 0, 7, 1, 3)>>},
     ta \in {0, 5}, sb \in {0, 5}, tb \in {"App", "Lib"},
     post \in {<<>>, <<Ev(TotalExecuteCompiler, 0, 7, 2, 4)>>}}
  \cup {NoTsFiles}

\* The output root before the first run: missing, or holding folder "1"
\* without or with the snapshot of an earlier unnamed run.
RunFileSystems ==
  {[p \in {} |-> Dir],
   WithEntry([p \in {OutRoot} |-> Dir], OutRoot, "1", "empty", 1),
   WithEntry([p \in {OutRoot} |-> Dir], OutRoot, "1", "unnamed", 1)}

\* The tools switched off with the --no-... options of a run.
DisabledSets ==
  {{}, {"OutputTargetTimes", "ClangBreakdown"}, {"SerializeProjectTrace"},
   {Tools[i] : i \in DOMAIN Tools}}

\* The run's snapshot file and the tool at hand.
OwnSnapshot == Append(ctx.output_path, ComparisonFileName)

Tool == Tools[run.k]

\* tool.run is called for the enabled tool name (Clangalyzer._run_tools,
\* lines 83-85).
Running(name) ==
  /\ status = "running"
  /\ run.pc = "tools"
  /\ Tool = name
  /\ Tool \notin run.disabled

Called == [Logger_log(run, "[Running]") EXCEPT !.ran = Append(@, Tool)]

\* Context.initialize, lines 49-52. _create_output_path (lines 82-98) ends the
\* run when the output root does not exist or the run's folder (the root
\* joined with the time of day; ctx.output_path is the joined path) already
\* does, else makes the folder; then the prior run is located and the run's
\* own store created.
RunInitialize ==
  /\ status = "running"
  /\ run.pc = "initialize"
  /\ LET l == Logger_log(run, "[Creating output path]")
         made == DictPut(fs, ctx.output_path, Dir)
         r == Context_find_last_comparison(made, ctx)
     IN IF ~Exists(fs, Parent(ctx.output_path)) \/ Exists(fs, ctx.output_path)
        THEN /\ status' = "fatal"
             /\ run' = Logger_log_error_and_exit(l)
             /\ UNCHANGED <<fs, last_comparison, located, store>>
        ELSE /\ fs' = made
             /\ last_comparison' = r.cmp
             /\ located' = [done |-> TRUE, rule |-> r.rule, root |-> r.root, from |-> r.from]
             /\ store' = Comparison_new(ctx.comparison_name)
             /\ run' = [(IF ctx.run_comparison
                         THEN Logger_log(l, "[Loading last comparison data]") ELSE l)
                        EXCEPT !.pc = "scan", !.created = TRUE]
             /\ UNCHANGED status
  /\ UNCHANGED <<ctx, lastAdd, inserts, snap, loaded, traceVars, parseVars, reportVars>>

\* Clangalyzer._find_build_data on the discovered files.
RunFindBuildData ==
  /\ status = "running"
  /\ run.pc = "scan"
  /\ LET r == FindBuildData(run.files, 1, heap, sources)
         l == Logger_log(run, "[Finding Build Data]")
     IN /\ heap' = r.heap
        /\ sources' = r.sources
        /\ status' = r.st
        /\ run' = IF r.st = "running" THEN [l EXCEPT !.pc = "tools", !.k = 1]
                  ELSE LoggedEnd(l, r.st)
  /\ UNCHANGED <<acc, joinLog, written, reparsed, parseVars, storeVars, locVars, reportVars>>

\* Clangalyzer._run_tools, lines 79-82: a disabled tool is skipped.
RunSkipTool ==
  /\ status = "running"
  /\ run.pc = "tools"
  /\ Tool \in run.disabled
  /\ run' = AfterTool(run, "running")
  /\ UNCHANGED <<status, traceVars, parseVars, storeVars, locVars, reportVars>>

\* ToolFindMostExpensiveFiles.run, the first tool: it computes the total time
\* of every TimingData.
RunFindMostExpensiveFiles ==
  /\ Running("FindMostExpensiveFiles")
  /\ LET r == CalculateAll(heap, sources, 1)
     IN /\ sources' = r.sources
        /\ status' = IF r.ok THEN status ELSE "fatal"
        /\ run' = AfterTool(Called, IF r.ok THEN status ELSE "fatal")
  /\ UNCHANGED <<heap, acc, joinLog, written, reparsed, parseVars, storeVars, locVars,
                 reportVars>>

\* ToolFindMostExpensiveIncludes.run and ToolGatherTraceFiles.run: they write
\* their report files and add no summary.
RunReportTool ==
  /\ \/ Running("FindMostExpensiveIncludes")
     \/ Running("GatherTraceFiles")
  /\ run' = AfterTool(Called, "running")
  /\ UNCHANGED <<status, traceVars, parseVars, storeVars, locVars, reportVars>>

\* The add_summary call that ends a tool's run.
ToolAddSummary(summary) ==
  LET r == Comparison_add_summary(store, ToolKey(Tool), summary)
  IN /\ store' = r.dict
     /\ status' = IF r.ok THEN status ELSE "fatal"
     /\ lastAdd' = [key |-> ToolKey(Tool), present |-> ~r.ok]
     /\ run' = AfterTool(Called, IF r.ok THEN status ELSE "fatal")

\* ToolFindMostExpensiveCodeGen.run, lines 87-92: the summary is added when
\* the per-target file could be written (ok). The trace files of the model
\* hold no CodeGen Function event, so the total is 0 / 1000.
RunFindMostExpensiveCodeGen(ok) ==
  /\ Running("FindMostExpensiveCodeGen")
  /\ IF ok THEN ToolAddSummary("*** Total ***" :> py_truediv(0, 1000))
     ELSE /\ run' = AfterTool(Called, "running")
          /\ UNCHANGED <<status, store, lastAdd>>
  /\ UNCHANGED <<inserts, snap, loaded, traceVars, parseVars, locVars, reportVars>>

\* ToolOutputTargetTimes.run: without targets nothing is added.
RunOutputTargetTimes ==
  /\ Running("OutputTargetTimes")
  /\ IF sources = <<>>
     THEN /\ run' = AfterTool(Called, "running")
          /\ UNCHANGED <<status, store, lastAdd>>
     ELSE ToolAddSummary(TargetTimesSummary(heap, sources))
  /\ UNCHANGED <<inserts, snap, loaded, traceVars, parseVars, locVars, reportVars>>

\* ToolSerializeProjectTrace.run: the joins, the write (io says how the file
\* system takes it) and, when the run goes on, the summary.
RunSerialize(io) ==
  /\ Running("SerializeProjectTrace")
  /\ LET j == JoinAll(heap, acc, sources, 1)
         empty == Len(j.self.items) = 0
         st == SerializeOutcome(io, empty)
     IN /\ heap' = TimingData_write_heap(j.heap, j.self)
        /\ acc' = j.self
        /\ written' =
             IF empty THEN [written EXCEPT !.n = @ + 1]
             ELSE [state |-> IF io = "ok" THEN "true"
                             ELSE IF io = "open_fails" THEN "exception" ELSE "false",
                   doc |-> IF io = "ok" THEN TimingData_write_doc(j.heap, j.self)
                           ELSE Doc("badjson", {}, <<>>),
                   of |-> [k \in DOMAIN j.self.items |-> j.heap[j.self.items[k]]],
                   n |-> written.n + 1]
        /\ IF st # "running"
           THEN /\ status' = st
                /\ run' = AfterTool(Called, st)
                /\ UNCHANGED <<store, lastAdd>>
           ELSE ToolAddSummary(SerialTimesSummary(j.self.time_offset, Len(sources)))
  /\ UNCHANGED <<sources, joinLog, reparsed, inserts, snap, loaded, parseVars, locVars,
                 reportVars>>

\* ToolShowBuildFolderSize.run: the bytes found on disk below the scanned
\* folders (size) are the total. ToolShowPrecompHeaderSizes.run: the model
\* has no .gch file, the total is 0.
RunShowSizes(size) ==
  /\ \/ Running("ShowBuildFolderSize")
     \/ Running("ShowPrecompHeaderSizes")
  /\ ToolAddSummary("*** Total ***" :> IF Tool = "ShowBuildFolderSize" THEN size ELSE 0)
  /\ UNCHANGED <<inserts, snap, loaded, traceVars, parseVars, locVars, reportVars>>

\* ToolClangBreakdown.run, the last tool.
RunClangBreakdown ==
  /\ Running("ClangBreakdown")
  /\ ToolAddSummary(ClangBreakdownSummary(heap, sources))
  /\ UNCHANGED <<inserts, snap, loaded, traceVars, parseVars, locVars, reportVars>>

\* Mutant of RunFinalize: the snapshot is saved on the way out of a run that
\* ended in log_error_and_exit as well.
RunFinalize_on_exit ==
  /\ \/ status = "running" /\ run.pc = "finalize"
     \/ status = "fatal" /\ run.created /\ ~Exists(fs, OwnSnapshot)
  /\ snap' = [exists |-> TRUE, text |-> Comparison_write_to_file(store), of |-> store]
  /\ fs' = DictPut(fs, OwnSnapshot, File(Comparison_write_to_file(store)))
  /\ run' = [run EXCEPT !.pc = IF status = "running" THEN "log" ELSE @]
  /\ UNCHANGED <<status, ctx, last_comparison, located, store, lastAdd, inserts, loaded,
                 traceVars, parseVars, reportVars>>

\* Clangalyzer._finalize_comparison, after the last tool: process_comparison
\* is called on the tools when there is a prior (lines 222-229), then the
\* store is saved as the run's snapshot (lines 231-239).
RunFinalize ==
  /\ status = "running"
  /\ run.pc = "finalize"
  /\ snap' = [exists |-> TRUE, text |-> Comparison_write_to_file(store), of |-> store]
  /\ fs' = DictPut(fs, OwnSnapshot, File(Comparison_write_to_file(store)))
  /\ run' = [Logger_log(IF ctx.run_comparison
                        THEN Logger_log(run, "[Outputting Comparison Data]") ELSE run,
                        "[Saving Comparison Data]")
             EXCEPT !.pc = "log",
                    !.compared = ToolsCompared(ctx.run_comparison, last_comparison)]
  /\ UNCHANGED <<status, ctx, last_comparison, located, store, lastAdd, inserts, loaded,
                 traceVars, parseVars, reportVars>>

\* Clangalyzer._finalize_log, lines 244-252: the Logger's lines are written to
\* log.log in the run's folder.
RunFinalizeLog ==
  /\ status = "running"
  /\ run.pc = "log"
  /\ LET l == Logger_log(run, "[Saving Log File]")
     IN run' = [l EXCEPT !.pc = "done", !.log_file = <<l.lines>>]
  /\ UNCHANGED <<status, traceVars, parseVars, storeVars, locVars, reportVars>>

\* The folder names the clock can give: "2" for the first run, the same or
\* "3" for a later one.
LaterFolders(folder) == IF folder = "2" THEN {"2", "3"} ELSE {"3"}

\* How a run ended, for the runs after it.
EndedRun ==
  [folder |-> ctx.output_path, status |-> status, created |-> run.created,
   saved |-> run.pc \in {"log", "done"}]

\* The next invocation of the program on the same output root, with the same
\* options and trace files, once the run at hand has ended.
RunStart(folder) ==
  /\ run.pc # "none"
  /\ status # "running" \/ run.pc = "done"
  /\ folder \in LaterFolders(ctx.output_path[Len(ctx.output_path)])
  /\ EndedRun \notin run.ended
  /\ Cardinality(run.ended) + 1 < MaxRuns
  /\ status' = "running"
  /\ run' = NewRun(run.files, run.disabled, run.quiet, run.ended \cup {EndedRun})
  /\ ctx' = [ctx EXCEPT !.output_path = Append(OutRoot, folder)]
  /\ heap' = <<>>
  /\ sources' = <<>>
  /\ acc' = [path |-> SerialTraceName, items |-> <<>>, time_offset |-> 0]
  /\ written' = NoWrite
  /\ store' = <<>>
  /\ lastAdd' = NoAdd
  /\ snap' = NoSnap
  /\ last_comparison' = <<>>
  /\ located' = NotLocated
  /\ UNCHANGED <<fs, joinLog, reparsed, inserts, loaded, parseVars, reportVars>>

InitRun ==
  /\ status = "running" /\ TraceIdle /\ ParseIdle /\ StoreIdle /\ ReportIdle
  /\ \E files \in RunFiles, disabled \in DisabledSets, quiet \in BOOLEAN :
       run = NewRun(files, disabled, quiet, {})
  /\ \E f \in RunFileSystems, b \in BOOLEAN :
       /\ fs = f
       /\ ctx = [output_path |-> Append(OutRoot, "2"),
                 run_comparison |-> b,
                 last_comparison_file_path |-> <<>>,
                 comparison_file_name |-> ComparisonFileName,
                 comparison_name |-> PyNone]
  /\ last_comparison = <<>>
  /\ located = NotLocated

NextRun ==
  \/ RunInitialize
  \/ RunFindBuildData
  \/ RunSkipTool
  \/ RunFindMostExpensiveFiles
  \/ RunReportTool
  \/ \E ok \in BOOLEAN : RunFindMostExpensiveCodeGen(ok)
  \/ RunOutputTargetTimes
  \/ \E io \in {"ok", "write_fails", "open_fails"} : RunSerialize(io)
  \/ \E size \in {4096, 8192} : RunShowSizes(size)
  \/ RunClangBreakdown
  \/ RunFinalize
  \/ RunFinalizeLog

SpecRun == InitRun /\ [][NextRun]_vars

\* Two trace files of the targets App and Lib.
TwoFiles ==
  <<TraceFile("App", "a.json", <<Ev(TotalExecuteCompiler, 0, 100000, 1, 3)>>),
    TraceFile("Lib", "b.json", <<Ev(TotalExecuteCompiler, 5, 200000, 2, 4)>>)>>

\* Runs one after the other on the same output root: over two good trace
\* files or over one whose event has no "ts".
InitRuns ==
  /\ status = "running" /\ TraceIdle /\ ParseIdle /\ StoreIdle /\ ReportIdle
  /\ \E files \in {TwoFiles, NoTsFiles}, disabled \in {{}, {"SerializeProjectTrace"}} :
       run = NewRun(files, disabled, FALSE, {})
  /\ \E f \in RunFileSystems, b \in BOOLEAN :
       /\ fs = f
       /\ ctx = [output_path |-> Append(OutRoot, "2"),
                 run_comparison |-> b,
                 last_comparison_file_path |-> <<>>,
                 comparison_file_name |-> ComparisonFileName,
                 comparison_name |-> PyNone]
  /\ last_comparison = <<>>
  /\ located = NotLocated

NextRuns ==
  \/ NextRun
  \/ \E folder \in {"2", "3"} : RunStart(folder)

SpecRuns == InitRuns /\ [][NextRuns]_vars

\* ------------------------------------------------------------ claims C1-C7

IsSentinel(it) == it.dict.name = TotalExecuteCompiler

SentinelIndexes(items) == {k \in DOMAIN items : IsSentinel(items[k])}

Max(S) == CHOOSE x \in S : \A y \in S : y <= x

\* The duration of the source's sentinel (of its last one, if several); 0 without one.
SentinelDur(items) ==
  IF SentinelIndexes(items) = {} THEN 0
  ELSE items[Max(SentinelIndexes(items))].duration

\* The end, ts + dur, of the source's last sentinel; 0 without one.
SentinelEnd(items) ==
  IF SentinelIndexes(items) = {} THEN 0
  ELSE items[Max(SentinelIndexes(items))].time + items[Max(SentinelIndexes(items))].duration

RECURSIVE SumDurBefore(_)
SumDurBefore(k) ==
  IF k <= 1 THEN 0 ELSE SumDurBefore(k - 1) + SentinelDur(joinLog[k - 1].pre)

RECURSIVE SumEndBefore(_)
SumEndBefore(k) ==
  IF k <= 1 THEN 0 ELSE SumEndBefore(k - 1) + SentinelEnd(joinLog[k - 1].pre)

\* The sources merged up to the k-th join are distinct and hold at most one sentinel each.
EachOnceOneSentinel(k) ==
  /\ \A i, j \in 1..k : i # j => joinLog[i].src # joinLog[j].src
  /\ \A i \in 1..k : Cardinality(SentinelIndexes(joinLog[i].pre)) <= 1

\* C1 as stated: every join shifts each event of the merged source by the sum
\* of the sentinel durations (dur) of the sources merged before it, whatever
\* the sentinels' timestamps (each source merged once, one sentinel at most).
C1_ShiftIsSumOfDurations ==
  \A k \in DOMAIN joinLog :
    EachOnceOneSentinel(k) =>
      \A e \in DOMAIN joinLog[k].pre :
        joinLog[k].post[e].time = joinLog[k].pre[e].time + SumDurBefore(k)

\* C1 amended: every join shifts each event of the merged source by the sum,
\* over the joins made before it, of the end (ts + dur, with the ts held when
\* that join began) of the merged source's last sentinel, 0 without a sentinel.
C1_ShiftIsSumOfSentinelEnds ==
  \A k \in DOMAIN joinLog :
    /\ joinLog[k].off = SumEndBefore(k)
    /\ \A e \in DOMAIN joinLog[k].pre :
         joinLog[k].post[e].time = joinLog[k].pre[e].time + SumEndBefore(k)

\* C1 witness: a source with a sentinel that starts after 0 was merged, then
\* another source with an event, which was shifted by more than the duration.
C1_Witness ==
  /\ Len(joinLog) >= 2
  /\ joinLog[1].src # joinLog[2].src
  /\ \E k \in DOMAIN joinLog[1].pre :
       IsSentinel(joinLog[1].pre[k]) /\ joinLog[1].pre[k].time > 0
  /\ Len(joinLog[2].pre) >= 1
  /\ joinLog[2].post[1].time > joinLog[2].pre[1].time + SumDurBefore(2)

ParsedPid(it) == it.dict.num["pid"].n

ParsedTid(it) == it.dict.num["tid"].n

\* C2: every event of the accumulator has the processId and the threadId of
\* the accumulator's first event, which keeps the ids it was parsed with.
C2_IdsUnified ==
  Len(acc.items) > 0 =>
    /\ heap[acc.items[1]].pid = ParsedPid(heap[acc.items[1]])
    /\ heap[acc.items[1]].tid = ParsedTid(heap[acc.items[1]])
    /\ \A i \in DOMAIN acc.items :
         /\ heap[acc.items[i]].pid = heap[acc.items[1]].pid
         /\ heap[acc.items[i]].tid = heap[acc.items[1]].tid

\* C2 witness: an empty source and a source whose events were parsed with
\* different ids have been merged.
C2_Witness ==
  /\ \E k \in DOMAIN joinLog : joinLog[k].pre = <<>>
  /\ \E i, j \in DOMAIN acc.items :
       /\ ParsedPid(heap[acc.items[i]]) # ParsedPid(heap[acc.items[j]])
       /\ ParsedTid(heap[acc.items[i]]) # ParsedTid(heap[acc.items[j]])

\* C3 as stated: a merge of a source holding more than one event named
\* "Total ExecuteCompiler" does not complete: the run is aborted.
C3_AmbiguousMergeIsFatal ==
  \A k \in DOMAIN joinLog :
    Cardinality(SentinelIndexes(joinLog[k].pre)) > 1 => status = "fatal"

\* The name json_dict is claimed to write for an item.
SuffixedName(it) ==
  IF it.dict.name = ExecuteCompiler THEN it.dict.name \o <<" - ", it.filename>>
  ELSE it.dict.name

\* C4 as stated: the file written by write re-parses successfully to the same
\* (name, ts, dur, pid, tid) tuples, ExecuteCompiler names suffixed with the
\* filename and all pid/tid pairs equal to one pair.
C4_RoundTrip ==
  (written.state = "true" /\ reparsed.result # "none") =>
    /\ reparsed.result = "true"
    /\ Len(reparsed.items) = Len(written.of)
    /\ \A i \in DOMAIN reparsed.items :
         /\ get_name(reparsed.items[i]) = SuffixedName(written.of[i])
         /\ reparsed.items[i].time = written.of[i].time
         /\ reparsed.items[i].duration = written.of[i].duration
         /\ reparsed.items[i].pid = reparsed.items[1].pid
         /\ reparsed.items[i].tid = reparsed.items[1].tid

\* C5 as stated: the object written for a non-empty accumulator has exactly
\* the keys beginningOfTime and traceEvents, and its events array holds one
\* entry per accumulator event, in accumulator order.
C5_TwoKeySchema ==
  written.state = "true" =>
    /\ written.doc.keys = {KeyBegin, KeyTrace}
    /\ Len(written.doc.events) = Len(written.of)
    /\ \A i \in DOMAIN written.of :
         /\ written.doc.events[i].name = SuffixedName(written.of[i])
         /\ written.doc.events[i].num["ts"] = JInt(written.of[i].time)

SchemaValid(doc) == doc.kind = "object" /\ doc.keys = TwoKeys

\* C6 as stated: parse returns failure, the run goes on and the Trace File
\* holds no events, for every input that is undecodable, not JSON, or not an
\* object with exactly the two keys.
C6_MalformedInputIsSkipped ==
  (parseOut.result # "none" /\ ~SchemaValid(inDoc)) =>
    /\ parseOut.result = "false"
    /\ status = "running"
    /\ parseOut.items = <<>>

LacksRequired(ev) == \E k \in {"ts", "pid", "tid"} : k \notin DOMAIN ev.num

NoBadString(ev) == \A k \in DOMAIN ev.num : ev.num[k].t # "badstr"

\* C7: in a schema-valid file, an event lacking ts, pid or tid aborts the run
\* (the event is not skipped, the file not rejected); when no event lacks one
\* (or holds a string that is no integer), the parse succeeds with one item
\* per event, and an event lacking only dur has duration 0.
C7_MissingFieldFatalMissingDurZero ==
  (parseOut.result # "none" /\ SchemaValid(inDoc)) =>
    /\ (\E i \in DOMAIN inDoc.events : LacksRequired(inDoc.events[i]))
         => (parseOut.result = "fatal" /\ status = "fatal")
    /\ (\A i \in DOMAIN inDoc.events :
           ~LacksRequired(inDoc.events[i]) /\ NoBadString(inDoc.events[i]))
         => /\ parseOut.result = "true"
            /\ status = "running"
            /\ Len(parseOut.items) = Len(inDoc.events)
    /\ \A i \in DOMAIN parseOut.items :
         "dur" \notin DOMAIN inDoc.events[i].num => parseOut.items[i].duration = 0

\* C7 witness: the first event lacked only dur and was parsed with duration
\* 0, the second lacked ts and the run was aborted.
C7_Witness ==
  /\ SchemaValid(inDoc)
  /\ Len(inDoc.events) = 2
  /\ DOMAIN inDoc.events[1].num = {"ts", "pid", "tid"}
  /\ DOMAIN inDoc.events[2].num = {"dur", "pid", "tid"}
  /\ Len(parseOut.items) = 1
  /\ parseOut.items[1].duration = 0
  /\ parseOut.result = "fatal"
  /\ status = "fatal"

\* ------------------------------------------------------------ claims C8-C9

\* C8: every key is inserted at most once: an add_summary call whose key is
\* already present, the reserved name key included, ends the run with a fatal
\* error, and the store keeps the name and, under every tool-key, the metric
\* mapping of the first insert.
C8_InsertAtMostOnce ==
  /\ lastAdd.present => status = "fatal"
  /\ NameKey \in DOMAIN store /\ store[NameKey].t = "str"
  /\ NameKey \notin DOMAIN inserts
  /\ \A k \in DOMAIN inserts :
       /\ Len(inserts[k]) = 1
       /\ k \in DOMAIN store
       /\ store[k] = JO(inserts[k][1])

\* C8 witness: a second add_summary under a tool-key that holds a non-empty
\* mapping ended the run.
C8_Witness ==
  /\ lastAdd.present
  /\ lastAdd.key \in DOMAIN inserts
  /\ DOMAIN inserts[lastAdd.key][1] # {}
  /\ status = "fatal"

ToolKeysOf(d) == (DOMAIN d) \ {NameKey}

\* C9: a Comparison loaded from the file written by write_to_file has the
\* name, the tool-keys and, under every tool-key, the metric keys and values
\* of the store that was written.
C9_SnapshotRoundTrip ==
  loaded.some =>
    /\ Comparison_name(loaded.dict) = Comparison_name(snap.of)
    /\ ToolKeysOf(loaded.dict) = ToolKeysOf(snap.of)
    /\ \A k \in ToolKeysOf(snap.of) :
         /\ DOMAIN loaded.dict[k].m = DOMAIN snap.of[k].m
         /\ \A q \in DOMAIN snap.of[k].m : loaded.dict[k].m[q] = snap.of[k].m[q]

\* C9 witness: a named store with two tool-keys, one holding two metrics,
\* was written and loaded.
C9_Witness ==
  /\ loaded.some
  /\ Comparison_name(snap.of) = "nightly"
  /\ Cardinality(ToolKeysOf(snap.of)) = 2
  /\ \E k \in ToolKeysOf(snap.of) : DOMAIN snap.of[k].m = MetricKeys

\* ----------------------------------------------------------------- claim C10

\* C10: with comparison enabled, the prior run is resolved in this order: the
\* explicit path if it names a file (that file is loaded); else the snapshot
\* file directly inside the explicit path if it names a directory holding
\* one (that snapshot is loaded); else the explicit path as search root if it
\* names a directory; otherwise the parent of the run's output directory as
\* search root.
C10_LocatorPrecedence ==
  (located.done /\ ctx.run_comparison) =>
    LET p == ctx.last_comparison_file_path
        own == Append(p, ComparisonFileName)
    IN IF p # <<>> /\ IsFile(fs, p)
       THEN /\ located.from = p
            /\ last_comparison = <<Comparison_load(fs[p].text)>>
       ELSE IF p # <<>> /\ IsDir(fs, p) /\ IsFile(fs, own)
       THEN /\ located.from = own
            /\ last_comparison = <<Comparison_load(fs[own].text)>>
       ELSE IF p # <<>> /\ IsDir(fs, p)
       THEN located.rule = "search" /\ located.root = p
       ELSE located.rule = "search" /\ located.root = Parent(ctx.output_path)

\* C10 witness: the explicit path is a directory that holds a snapshot file
\* and run folders with snapshots; its own snapshot was loaded although the
\* default root holds a matching snapshot too.
C10_Witness ==
  /\ located.done /\ ctx.run_comparison
  /\ ctx.last_comparison_file_path = Given
  /\ IsFile(fs, Append(Given, ComparisonFileName))
  /\ IsFile(fs, Append(Append(Given, "2"), ComparisonFileName))
  /\ \E n \in {"1", "2", "3"} : IsFile(fs, Append(Append(OutRoot, n), ComparisonFileName))
  /\ located.from = Append(Given, ComparisonFileName)
  /\ last_comparison # <<>>

\* ----------------------------------------------------------------- claim C11

NameRank(n) == CHOOSE i \in 1..Len(NameOrder) : NameOrder[i] = n

\* The children of root that qualify as the prior run for context c.
Qualifying(f, c, root) ==
  {n \in {NameOrder[i] : i \in 1..Len(NameOrder)} :
     /\ Append(root, n) # c.output_path
     /\ IsDir(f, Append(root, n))
     /\ IsFile(f, Append(Append(root, n), c.comparison_file_name))
     /\ \/ c.comparison_name = PyNone
        \/ Comparison_name(Comparison_load(
             f[Append(Append(root, n), c.comparison_file_name)].text)) = c.comparison_name}

C11_WitnessNoPrior ==
  /\ located.done /\ located.rule = "search"
  /\ Qualifying(fs, ctx, located.root) = {}
  /\ \E n \in {"1", "2", "3"} :
       IsFile(fs, Append(Append(located.root, n), ComparisonFileName))
  /\ last_comparison = <<>> /\ status = "running"

\* ------------------------------------------------------------ claims C12-C17

DataLines == SelectSeq(report, LAMBDA l : l.kind = "data")

\* The data lines of keys that have a value on both sides.
BothSides ==
  {i \in 1..Len(DataLines) :
     /\ DataLines[i].key \in DOMAIN deltaIn.summary
     /\ DataLines[i].key \in DOMAIN deltaIn.last_summary}

Prior(i) == deltaIn.last_summary[DataLines[i].key]

Current(i) == deltaIn.summary[DataLines[i].key]

Abs(n) == IF n < 0 THEN -n ELSE n

\* The signed number the delta column shows.
Shown(i) == DataLines[i].diff.n

\* C12: log_summary logs exactly one data line per key of the union of the two
\* key sets; a key missing from one side has "-" in that side's column and
\* "n/a" in the delta column.
C12_OneLinePerUnionKey ==
  report # <<>> =>
    LET U == DOMAIN deltaIn.summary \cup DOMAIN deltaIn.last_summary
    IN /\ Len(DataLines) = Cardinality(U)
       /\ \A k \in U : Cardinality({i \in 1..Len(DataLines) : DataLines[i].key = k}) = 1
       /\ \A i \in 1..Len(DataLines) :
            /\ DataLines[i].key \notin DOMAIN deltaIn.last_summary =>
                 DataLines[i].last = Dash /\ DataLines[i].diff.fmt = "n/a"
            /\ DataLines[i].key \notin DOMAIN deltaIn.summary =>
                 DataLines[i].cur = Dash /\ DataLines[i].diff.fmt = "n/a"

\* C12 witness: one key only in the current summary and another only in the
\* prior one; two data lines were logged.
C12_Witness ==
  /\ report # <<>>
  /\ DOMAIN deltaIn.summary = {"App"} /\ deltaIn.summary["App"] = 50
  /\ DOMAIN deltaIn.last_summary = {"*** Total ***"}
  /\ deltaIn.last_summary["*** Total ***"] = 50
  /\ Len(DataLines) = 2
  /\ DataLines[2].key = "App" /\ DataLines[2].last = Dash /\ DataLines[2].diff.fmt = "n/a"

\* C13: for a key on both sides with prior > 0 and |delta%| < 100, the delta
\* column shows ((prior - current) / prior) * 100 with two decimal places
\* (off by less than 0.01 from it), with a leading "+" when current decreased.
C13_DeltaTwoDecimals ==
  \A i \in BothSides :
    (Prior(i) > 0 /\ Abs(Prior(i) - Current(i)) < Prior(i)) =>
      /\ DataLines[i].diff.fmt = "%s%0.2f%%"
      /\ Abs(Shown(i) * Prior(i) - (Prior(i) - Current(i)) * 10000) < Prior(i)
      /\ (Current(i) < Prior(i)) => (DataLines[i].diff.plus = "+" /\ Shown(i) >= 0)

\* The example of C13: prior 100 and current 50 are reported as +50.00%.
C13_Example ==
  \A i \in BothSides :
    (Prior(i) = 100 /\ Current(i) = 50) =>
      DataLines[i].diff = Difference("%s%0.2f%%", "+", 5000)

\* C14: for a key on both sides with prior > 0 and |delta%| >= 100, the delta
\* column shows delta% rounded to the nearest whole percent.
C14_DeltaNearestWhole ==
  \A i \in BothSides :
    (Prior(i) > 0 /\ Abs(Prior(i) - Current(i)) >= Prior(i)) =>
      /\ DataLines[i].diff.fmt = "%s%d%%"
      /\ 2 * Abs(Shown(i) * Prior(i) - (Prior(i) - Current(i)) * 100) <= Prior(i)

Classification(color) ==
  IF color = "green" THEN "improved"
  ELSE IF color = "red" THEN "regressed" ELSE "unchanged"

Swap(class, smaller_is_better) ==
  IF smaller_is_better \/ class = "unchanged" THEN class
  ELSE IF class = "improved" THEN "regressed" ELSE "improved"

\* C15: a line with a computed delta is classified by the sign of the delta
\* it displays: with smaller-is-better improved iff positive, regressed iff
\* negative, unchanged iff zero; with the flag false improved and regressed
\* are swapped.
C15_ClassBySignOfDisplayedDelta ==
  \A i \in BothSides :
    Prior(i) > 0 =>
      Classification(DataLines[i].color) =
        Swap(IF Shown(i) > 0 THEN "improved"
             ELSE IF Shown(i) < 0 THEN "regressed" ELSE "unchanged",
             deltaIn.smaller_is_better)

\* C15 as the code has it: the line is classified by the sign of the delta
\* itself, (prior - current) / prior, whatever the truncated display shows.
C15_ClassBySignOfDelta ==
  \A i \in BothSides :
    Prior(i) > 0 =>
      Classification(DataLines[i].color) =
        Swap(IF Prior(i) - Current(i) > 0 THEN "improved"
             ELSE IF Prior(i) - Current(i) < 0 THEN "regressed" ELSE "unchanged",
             deltaIn.smaller_is_better)

\* C15 witness: a regression too small to show, 100000 to 100001, is
\* displayed as 0.00% and classified regressed.
C15_Witness ==
  \E i \in BothSides :
    /\ Prior(i) = 100000 /\ Current(i) = 100001
    /\ deltaIn.smaller_is_better
    /\ DataLines[i].diff = Difference("%s%0.2f%%", "", 0)
    /\ Classification(DataLines[i].color) = "regressed"

\* C16: a key on both sides whose prior and current are both 0 is reported
\* with delta "n/a" and classified unchanged; no percentage is computed.
C16_ZeroBaseline ==
  \A i \in BothSides :
    (Prior(i) = 0 /\ Current(i) = 0) =>
      /\ DataLines[i].diff = Difference("n/a", "", 0)
      /\ Classification(DataLines[i].color) = "unchanged"

\* C16 witness: the line of a key that is 0 in both summaries was logged.
C16_Witness ==
  \E i \in BothSides :
    /\ Prior(i) = 0 /\ Current(i) = 0
    /\ DataLines[i].last = Dash /\ DataLines[i].cur = Dash
    /\ DataLines[i].diff.fmt = "n/a"

\* C17: value_to_string gives "-" for the value 0 whatever the unit kind, and
\* something else for every other value.
C17_ZeroIsDash ==
  rendered.done => (rendered.text = Dash <=> rendered.value = 0)

\* C17 witness: a file size of 0 was rendered as "-".
C17_Witness ==
  /\ rendered.done /\ rendered.units = "FILESIZE" /\ rendered.value = 0
  /\ rendered.text = Dash

\* C17 second case: a non-zero time was rendered as seconds.
C17_WitnessNonZero ==
  /\ rendered.done /\ rendered.units = "TIME_MILLISECONDS" /\ rendered.value = 1005
  /\ rendered.text = Text(<<"%0.2f sec">>, 100)

\* ----------------------------------------------------------------- claim C18

\* The component of path p that is k levels above the file, <<>> if none.
Above(p, k) == IF Len(p) > k THEN p[Len(p) - k] ELSE <<>>

\* C18: the classifier's result depends on the directories above the file
\* only: when the third one ends in ".build" it is (that name without the
\* suffix, the fourth one, the first one); when the third one is
\* "SharedPrecompiledHeaders" it is ("SharedPrecompiledHeaders", "-", "-");
\* every other path is unclassifiable.
C18_ClassifierByComponents ==
  classified.done =>
    LET p == classified.path
        ggp == Above(p, 3)
    IN IF ggp # <<>> /\ ggp[Len(ggp)] = ".build"
       THEN classified.result =
              <<[target |-> SubSeq(ggp, 1, Len(ggp) - 1),
                 platform |-> Above(p, 4), arch |-> Above(p, 1)]>>
       ELSE IF ggp = <<"SharedPrecompiledHeaders">>
       THEN classified.result =
              <<[target |-> <<"SharedPrecompiledHeaders">>,
                 platform |-> <<"-">>, arch |-> <<"-">>]>>
       ELSE classified.result = <<>>

\* C18 witness: Platform/Target.build/<any>/x86_64/<file> was classified as
\* ("Target", "Platform", "x86_64").
C18_Witness ==
  /\ classified.done
  /\ Len(classified.path) = 5
  /\ classified.path[1] = <<"Platform">>
  /\ classified.path[2] = <<"Target", ".build">>
  /\ classified.path[3] = <<"Target">>
  /\ classified.path[4] = <<"x86_64">>
  /\ classified.result =
       <<[target |-> <<"Target">>, platform |-> <<"Platform">>, arch |-> <<"x86_64">>]>>

\* C18 second case: a file below SharedPrecompiledHeaders.
C18_WitnessShared ==
  /\ classified.done
  /\ Len(classified.path) = 4
  /\ classified.path[1] = <<"SharedPrecompiledHeaders">>
  /\ classified.result =
       <<[target |-> <<"SharedPrecompiledHeaders">>, platform |-> <<"-">>, arch |-> <<"-">>]>>

\* ---------------------------------------------------------- claims: the run

\* The total-invocation sentinels among the events of a trace file.
SentinelsOf(f) == SelectSeq(f.doc.events, LAMBDA e : e.name = TotalExecuteCompiler)

FileTarget(f) == target_and_platform_and_arch_from_path(f.path)[1].target

\* A finished run of every tool over two trace files of two different
\* targets, each with exactly one sentinel, of 100000 and 200000 microseconds.
TwoTargetsRunDone ==
  /\ run.pc = "done"
  /\ run.disabled = {}
  /\ Len(run.files) = 2
  /\ FileTarget(run.files[1]) # FileTarget(run.files[2])
  /\ Len(SentinelsOf(run.files[1])) = 1
  /\ Len(SentinelsOf(run.files[2])) = 1
  /\ SentinelsOf(run.files[1])[1].num["dur"].n = 100000
  /\ SentinelsOf(run.files[2])[1].num["dur"].n = 200000

FileSentinelEnd(f) == SentinelsOf(f)[1].num["ts"].n + SentinelsOf(f)[1].num["dur"].n

TargetTimesExpected == ("App" :> 100) @@ ("Lib" :> 200) @@ ("*** Total ***" :> 300)

\* C19 as stated: after a full run over two trace files in two different
\* targets, each with one sentinel, of 100000 and 200000 microseconds, the
\* merged accumulator's total time is 300000 and the "Target Times" summary
\* maps the targets to 100 and 200 and the total key to 300.
C19_MergedTotalAndTargetTimes ==
  TwoTargetsRunDone =>
    /\ acc.time_offset = 300000
    /\ "Target Times" \in DOMAIN store
    /\ store["Target Times"].m = TargetTimesExpected

\* C19 amended: the merged total is the sum of the two sentinels' ends (start
\* plus duration), which is 300000 when both sentinels start at 0; the
\* "Target Times" summary maps the targets to 100 and 200 and the total key
\* to 300 wherever the sentinels start.
C19_MergedTotalIsSumOfSentinelEnds ==
  TwoTargetsRunDone =>
    /\ acc.time_offset = FileSentinelEnd(run.files[1]) + FileSentinelEnd(run.files[2])
    /\ (FileSentinelEnd(run.files[1]) = 100000 /\ FileSentinelEnd(run.files[2]) = 200000
          => acc.time_offset = 300000)
    /\ "Target Times" \in DOMAIN store
    /\ store["Target Times"].m = TargetTimesExpected

C19_Witness ==
  /\ TwoTargetsRunDone
  /\ FileSentinelEnd(run.files[1]) = 100000
  /\ FileSentinelEnd(run.files[2]) = 200000
  /\ acc.time_offset = 300000
  /\ store["Target Times"].m = TargetTimesExpected

\* C20 as stated: a failed write of the merged trace file is not fatal, the
\* run goes on with the remaining tools and saves its snapshot.
C20_WriteFailureNotFatal ==
  written.state \in {"false", "exception"} => status = "running"

\* C20 amended: a failed write of the merged trace file ends the run. When
\* f.write fails, write warns and returns False and the serializer exits
\* through log_error_and_exit; when open or the flushing close fails, the
\* exception is caught nowhere. Either way the serializer adds no "Serial Times" summary and no
\* snapshot is saved.
C20_WriteFailureEndsRun ==
  written.state \in {"false", "exception"} =>
    /\ status = (IF written.state = "false" THEN "fatal" ELSE "exception")
    /\ "Serial Times" \notin DOMAIN store
    /\ ~snap.exists
    /\ run.pc = "tools" /\ Tool = "SerializeProjectTrace"

C20_Witness ==
  /\ written.state = "false"
  /\ status = "fatal"
  /\ "Target Times" \in DOMAIN store
  /\ "Serial Times" \notin DOMAIN store
  /\ ~snap.exists

\* ------------------------------------------------- claims: frame conditions

\* The accumulator's events as they are in memory.
AccItems == [k \in DOMAIN acc.items |-> heap[acc.items[k]]]

\* C21: a call of TimingData.write, whether the write succeeds or fails,
\* leaves the accumulator's event sequence, every event's name, timestamp,
\* duration, pid and tid and the cumulative offset as they were, and a second
\* successful write produces the same text as the first.
C21_WriteLeavesModelUnchanged ==
  [][written'.n # written.n =>
       /\ acc' = acc
       /\ AccItems' = AccItems
       /\ heap' = heap
       /\ (written.state = "true" /\ written'.state = "true"
             => written'.doc = written.doc)]_vars

\* Two writes of an accumulator holding a compiler-invocation span, whose
\* name json_dict rewrites in the text: the events are as they were joined.
C21_Witness ==
  /\ written.n = 2
  /\ written.state = "true"
  /\ \E k \in DOMAIN acc.items : is_execute_compiler(heap[acc.items[k]])
  /\ AccItems = written.of
  /\ \E i \in DOMAIN written.doc.events : written.doc.events[i].name # get_name(written.of[i])

\* A failed write after a successful one: the events are as they were.
C21_WitnessFailure ==
  /\ written.n = 2
  /\ written.state = "false"
  /\ Len(acc.items) > 0
  /\ AccItems = written.of

\* C22 as stated: a merge leaves the timestamp, pid and tid of the events
\* held by the source as they were parsed, so the source's total time is the
\* same after the merge as before it.
C22_SourceEventsImmutable ==
  \A k \in DOMAIN joinLog :
    /\ \A i \in DOMAIN joinLog[k].pre :
         /\ joinLog[k].post[i].time = joinLog[k].pre[i].time
         /\ joinLog[k].post[i].pid = joinLog[k].pre[i].pid
         /\ joinLog[k].post[i].tid = joinLog[k].pre[i].tid
    /\ SentinelEnd(joinLog[k].post) = SentinelEnd(joinLog[k].pre)

\* ------------------------------------------------------- claims: stitching

\* The greatest end (time + duration) of a sentinel among items, 0 without one.
LatestSentinelEnd(items) ==
  IF SentinelIndexes(items) = {} THEN 0
  ELSE LET ends == {items[i].time + items[i].duration : i \in SentinelIndexes(items)}
       IN CHOOSE e \in ends : \A x \in ends : x <= e

\* C23 as stated: for sources with non-negative timestamps and durations, the
\* cumulative offset never decreases across merges, every event of a source
\* is placed at or after the offset that held when its source was merged, and
\* that offset is not less than the end of a total-invocation span of any
\* source merged earlier.
C23_MonotonicStitching ==
  \A k \in DOMAIN joinLog :
    /\ joinLog[k].off >= 0
    /\ k > 1 => joinLog[k].off >= joinLog[k - 1].off
    /\ acc.time_offset >= joinLog[k].off
    /\ \A i \in DOMAIN joinLog[k].post : joinLog[k].post[i].time >= joinLog[k].off
    /\ \A j \in 1..(k - 1) : joinLog[k].off >= LatestSentinelEnd(joinLog[j].post)

\* ------------------------------------------------- claims: serialized names

\* The path of the source that holds the item with reference id.
SourceOf(id) ==
  sources[CHOOSE q \in DOMAIN sources :
            \E k \in DOMAIN sources[q].items : sources[q].items[k] = id].path

C26_NameIgnoredWithExplicitPath ==
  (located.done /\ ctx.run_comparison
     /\ ctx.last_comparison_file_path # <<>>
     /\ Exists(fs, ctx.last_comparison_file_path)) =>
    \A name \in {PyNone, "nightly", "weekly"} :
      LET r == Context_find_last_comparison(fs, [ctx EXCEPT !.comparison_name = name])
      IN r.from = located.from /\ r.cmp = last_comparison

\* --------------------------------------------------- claims: zero baseline

\* C30: a key on both sides whose prior is 0 and whose current is positive is
\* reported with the infinity delta, without a sign and without a percentage
\* computed, and is classified regressed when smaller is better and improved
\* otherwise.
C30_ZeroPriorIsInfinity ==
  \A i \in BothSides :
    (Prior(i) = 0 /\ Current(i) > 0) =>
      /\ DataLines[i].diff = Difference("%sinf%%", "", 0)
      /\ Classification(DataLines[i].color) =
           (IF deltaIn.smaller_is_better THEN "regressed" ELSE "improved")

\* C30 witness: the line of a key with prior 0 and current 5 was logged under
\* smaller-is-better.
C30_Witness ==
  \E i \in BothSides :
    /\ Prior(i) = 0 /\ Current(i) = 5
    /\ deltaIn.smaller_is_better
    /\ DataLines[i].diff.fmt = "%sinf%%"
    /\ DataLines[i].color = "red"

\* ------------------------------------------------------ claims: fatal errors

\* The ERROR line reached a place that outlives the process: the screen or
\* the log file.
ErrorDelivered ==
  \/ \E i \in DOMAIN run.printed : run.printed[i] = "ERROR"
  \/ run.log_file # <<>> /\ \E i \in DOMAIN run.log_file[1] : run.log_file[1][i] = "ERROR"

\* C25 as stated: a run that ended in a fatal error has logged the error as
\* the last thing it did, its logs were flushed (the error reached the screen
\* or the log file), and no later step ran: no further tool, no delta report,
\* no snapshot of the run.
C25_FatalLoggedFlushedAndLast ==
  status = "fatal" =>
    /\ run.lines # <<>> /\ run.lines[Len(run.lines)] = "ERROR"
    /\ ErrorDelivered
    /\ run.pc \notin {"finalize", "log", "done"}
    /\ run.compared = <<>>
    /\ ~snap.exists
    /\ run.created => ~Exists(fs, OwnSnapshot)

\* --------------------------------------------------------- claims: tool keys

EnabledTools == {Tools[i] : i \in DOMAIN Tools} \ run.disabled

\* C27: in a run over the default tools, each run at most once, no
\* add_summary call finds its key present; the tools' keys are pairwise
\* distinct and none is the name key; a disabled tool's key is not in the
\* store; and after the run the store holds the name key and otherwise only
\* keys of enabled tools, at most one per tool.
C27_ToolKeysDisjoint ==
  /\ \A i, j \in DOMAIN run.ran : i # j => run.ran[i] # run.ran[j]
  /\ ~lastAdd.present
  /\ \A i, j \in DOMAIN Tools :
       (i # j /\ ToolKey(Tools[i]) # PyNone) => ToolKey(Tools[i]) # ToolKey(Tools[j])
  /\ \A i \in DOMAIN Tools : ToolKey(Tools[i]) # NameKey
  /\ \A t \in run.disabled : ToolKey(t) \notin DOMAIN store
  /\ run.pc = "done" =>
       /\ NameKey \in DOMAIN store
       /\ (DOMAIN store) \ {NameKey} \subseteq {ToolKey(t) : t \in EnabledTools}
       /\ Cardinality((DOMAIN store) \ {NameKey}) <= Cardinality(EnabledTools)

\* C27 witness: a finished run of all nine tools whose six keyed tools each
\* added their summary.
C27_Witness ==
  /\ run.pc = "done"
  /\ run.disabled = {}
  /\ run.ran = Tools
  /\ DOMAIN store = {NameKey, "CodeGen Times", "Target Times", "Serial Times",
                     "Build Folder Sizes", "Precompiled Header Sizes", "Clang Breakdown"}

\* ------------------------------------------- claims: runs without a prior

\* The run's snapshot file holds the run's store.
SnapshotSaved ==
  /\ IsFile(fs, OwnSnapshot)
  /\ fs[OwnSnapshot].text = Comparison_write_to_file(store)

\* C29: with comparison disabled no prior is located or loaded and no tool's
\* process_comparison is called, yet once the run is through
\* _finalize_comparison its store is saved to the snapshot file; with
\* comparison enabled and no prior found, process_comparison is not called
\* either and the snapshot is saved all the same.
C29_NoPriorNoComparisonButSaved ==
  /\ ~ctx.run_comparison =>
       /\ last_comparison = <<>>
       /\ located.from = <<>>
       /\ run.compared = <<>>
       /\ run.pc \in {"log", "done"} => SnapshotSaved
  /\ (ctx.run_comparison /\ last_comparison = <<>>) =>
       /\ run.compared = <<>>
       /\ run.pc \in {"log", "done"} => SnapshotSaved

\* C29 witness: a run with comparison disabled finished next to the snapshot
\* of an earlier run, which it did not load, and saved its own.
C29_Witness ==
  /\ ~ctx.run_comparison
  /\ run.pc = "done"
  /\ IsFile(fs, <<"out", "1", ComparisonFileName>>)
  /\ last_comparison = <<>>
  /\ run.compared = <<>>
  /\ SnapshotSaved
  /\ "Target Times" \in DOMAIN store

\* ------------------------------------------------ claims: runs on one root

\* The runs that ended in log_error_and_exit: earlier ones and the one at hand.
FatalRuns ==
  {e \in run.ended : e.status = "fatal"}
  \cup (IF status = "fatal" THEN {EndedRun} ELSE {})

\* C28: across runs on one output root, the snapshot file of a run exists
\* only once the run has located its prior and every enabled tool has run, so
\* the prior a run selects is never its own snapshot; a run that ended in a
\* fatal error saved no snapshot, the folder it made holds none, and no later
\* run selects a snapshot from that folder as its prior.
C28_SnapshotAfterToolsAndPrior ==
  /\ (run.created /\ Exists(fs, OwnSnapshot)) =>
       /\ run.pc \in {"log", "done"}
       /\ located.done
       /\ \A t \in EnabledTools : \E i \in DOMAIN run.ran : run.ran[i] = t
  /\ located.from # OwnSnapshot
  /\ \A e \in FatalRuns :
       /\ ~e.saved
       /\ e.created =>
            /\ ~Exists(fs, Append(e.folder, ComparisonFileName))
            /\ located.from # Append(e.folder, ComparisonFileName)

\* C28 witness: the run in folder "2" made its folder and ended in a fatal
\* error; the later run in folder "3" searched the root, passed folder "2" by
\* and took the snapshot of folder "1" as its prior, then saved its own.
C28_Witness ==
  /\ \E e \in run.ended :
       e.status = "fatal" /\ e.created /\ e.folder = <<"out", "2">>
  /\ ctx.output_path = <<"out", "3">>
  /\ run.pc = "done"
  /\ located.from = <<"out", "1", ComparisonFileName>>
  /\ Exists(fs, OwnSnapshot)

====
